---------------------------- MODULE Spec2Model ----------------------------
(***************************************************************************)
(* Model of the access-gated conversation engine of src/main.py: the       *)
(* access_list and counterparty_tags tables, the per-user user_data, the   *)
(* two ConversationHandler state maps, and one action per update handler.  *)
(*                                                                         *)
(* Text is a sequence of one-character strings, so that strip(), lower(),  *)
(* isdigit(), int() and the store's ILIKE filter are computed, not         *)
(* assumed.  An absent username (None) and the empty string are both the   *)
(* empty sequence: the code never distinguishes them (`if not u`).         *)
(* A null telegram_id is NoId.                                             *)
(***************************************************************************)
EXTENDS Integers, Sequences, FiniteSets, TLC

VARIABLES
    supabase,       \* TRUE: the client was created by init_supabase; FALSE: None
    access_list,    \* table access_list: sequence of rows, row id = index
    counterparty_tags, \* table counterparty_tags: sequence of rows (insert order)
    user_data,      \* context.user_data, per user id
    cp_state,       \* cp_conv conversation state, per user ("END" = no conversation)
    adm_state,      \* adm_conv conversation state, per user
    latest,         \* per user: the last name, colour and comment the tagging
                    \* workflow accepted, as received (history, read by no handler)
    ev,             \* observation of the last update handled
    msgs            \* per user: the chat with the bot (messages and who sent
                    \* them) and the two message ids kept in user_data

vars == <<supabase, access_list, counterparty_tags, user_data, cp_state, adm_state,
          latest, ev, msgs>>

---------------------------------------------------------------------------
(* Bounds of the model *)

MaxRows == 2
MaxTags == 2
MaxMsgs == 6

---------------------------------------------------------------------------
(* Text helpers *)

NoText == <<>>
NoId == 0

Digits == {"0", "1", "2", "3", "4", "5", "6", "7", "8", "9"}

DigitVal(c) ==
    CASE c = "0" -> 0 [] c = "1" -> 1 [] c = "2" -> 2 [] c = "3" -> 3
      [] c = "4" -> 4 [] c = "5" -> 5 [] c = "6" -> 6 [] c = "7" -> 7
      [] c = "8" -> 8 [] c = "9" -> 9

Lower(c) ==
    CASE c = "A" -> "a" [] c = "B" -> "b" [] c = "C" -> "c" [] c = "D" -> "d"
      [] c = "K" -> "k" [] c = "O" -> "o" [] c = "P" -> "p" [] c = "H" -> "h"
      [] OTHER -> c

LowerStr(s) == [i \in DOMAIN s |-> Lower(s[i])]

RECURSIVE LStrip(_)
LStrip(s) == IF s # <<>> /\ s[1] = " " THEN LStrip(Tail(s)) ELSE s

RECURSIVE RStrip(_)
RStrip(s) == IF s # <<>> /\ s[Len(s)] = " " THEN RStrip(SubSeq(s, 1, Len(s) - 1)) ELSE s

Strip(s) == RStrip(LStrip(s))

IsDigit(s) == s # <<>> /\ \A i \in DOMAIN s : s[i] \in Digits

RECURSIVE ToInt(_)
ToInt(s) == IF s = <<>> THEN 0 ELSE 10 * ToInt(SubSeq(s, 1, Len(s) - 1)) + DigitVal(s[Len(s)])

\* normalize_username: None for None/empty, else strip, drop one leading "@", lower.
normalize_username(u) ==
    IF u = NoText THEN NoText
    ELSE LET s == Strip(u)
             t == IF s # <<>> /\ s[1] = "@" THEN Tail(s) ELSE s
         IN  LowerStr(t)

\* The store's ILIKE filter: case-insensitive LIKE, "_" matches one character,
\* "%" any run of characters.
RECURSIVE Like(_, _)
Like(v, p) ==
    IF p = <<>> THEN v = <<>>
    ELSE IF p[1] = "%" THEN Like(v, Tail(p)) \/ (v # <<>> /\ Like(Tail(v), p))
    ELSE v # <<>> /\ (p[1] = "_" \/ Lower(p[1]) = Lower(v[1])) /\ Like(Tail(v), Tail(p))

ILike(v, p) == Like(v, p)

---------------------------------------------------------------------------
(* Process configuration and the access_list table *)

ADMIN_IDS == {1}

Row(tid, uname, role, active) ==
    [telegram_id |-> tid, username |-> uname, role |-> role, is_active |-> active]

\* .eq("telegram_id", n): the rows whose telegram_id is n
RowsById(store, n) == {i \in DOMAIN store : store[i].telegram_id = n}

\* .ilike("username", p): the rows whose username is not null and matches p
RowsByUsername(store, p) ==
    {i \in DOMAIN store : store[i].username # NoText /\ ILike(store[i].username, p)}

\* _query_access: the rows one of which the two limit(1) selects return.
\* A limit(1) select without an order returns any one matching row.
QueryAccess(store, user_id, uname) ==
    IF RowsById(store, user_id) # {} THEN RowsById(store, user_id)
    ELSE IF uname # NoText THEN RowsByUsername(store, uname)
    ELSE {}

Verdict(allowed, admin) == [allowed |-> allowed, is_admin |-> admin]

\* Mutant of is_allowed_user: the store is consulted before ADMIN_IDS, which
\* only decides when no row is found.
is_allowed_user_store_first(store, sb, user_id, username) ==
    LET rows == IF sb THEN QueryAccess(store, user_id, normalize_username(username)) ELSE {}
    IN  IF rows = {} THEN {Verdict(user_id \in ADMIN_IDS, user_id \in ADMIN_IDS)}
        ELSE {IF ~store[i].is_active THEN Verdict(FALSE, FALSE)
              ELSE Verdict(TRUE, store[i].role = "admin" \/ user_id \in ADMIN_IDS) : i \in rows}

\* is_allowed_user, given a reachable store: the set of (allowed, is_admin)
\* the call may return.
is_allowed_user(store, sb, user_id, username) ==
    IF user_id \in ADMIN_IDS THEN {Verdict(TRUE, TRUE)}
    ELSE IF ~sb THEN {Verdict(FALSE, FALSE)}
    ELSE LET rows == QueryAccess(store, user_id, normalize_username(username))
         IN  IF rows = {} THEN {Verdict(FALSE, FALSE)}
             ELSE {IF ~store[i].is_active THEN Verdict(FALSE, FALSE)
                   ELSE Verdict(TRUE, store[i].role = "admin") : i \in rows}

\* Mutant of upsert_user_identity: the row is looked up by handle before it
\* is looked up by telegram_id.
upsert_user_identity_handle_first(store, sb, user_id, username) ==
    LET uname == normalize_username(username)
        byId  == RowsById(store, user_id)
        byU   == RowsByUsername(store, uname)
    IN  IF ~sb THEN {store}
        ELSE IF uname # NoText /\ byU # {}
             THEN {[store EXCEPT ![i].telegram_id = user_id] : i \in byU}
        ELSE IF byId # {}
             THEN {[store EXCEPT ![i].username = uname] : i \in byId}
        ELSE {store}

\* Mutant of upsert_user_identity: a row found by handle is left as it is.
upsert_user_identity_id_only(store, sb, user_id, username) ==
    LET byId == RowsById(store, user_id)
    IN  IF ~sb \/ byId = {} THEN {store}
        ELSE {[store EXCEPT ![i].username = normalize_username(username)] : i \in byId}

\* upsert_user_identity: the stores the call may leave.
upsert_user_identity(store, sb, user_id, username) ==
    LET uname == normalize_username(username)
        byId  == RowsById(store, user_id)
        byU   == RowsByUsername(store, uname)
    IN  IF ~sb THEN {store}
        ELSE IF byId # {}
             THEN {[store EXCEPT ![i].username = uname] : i \in byId}
        ELSE IF uname # NoText /\ byU # {}
             THEN {[store EXCEPT ![i].telegram_id = user_id] : i \in byU}
        ELSE {store}

\* Mutant of grant_access: the target is not validated before the store is written.
grant_access_no_validation(store, sb, target0, role) ==
    LET target == Strip(target0)
        uname  == normalize_username(target)
        hasTid == IsDigit(target)
        tid    == IF hasTid THEN ToInt(target) ELSE NoId
        data   == Row(tid, uname, role, TRUE)
        byId   == RowsById(store, tid)
        byU    == RowsByUsername(store, uname)
    IN  IF ~sb THEN {[store |-> store, status |-> "not_configured"]}
        ELSE IF hasTid
             THEN IF byId # {}
                  THEN {[store |-> [store EXCEPT ![i] = data], status |-> "updated_by_id"]
                           : i \in byId}
                  ELSE {[store |-> Append(store, data), status |-> "inserted_by_id"]}
        ELSE IF byU # {}
             THEN {[store |-> [store EXCEPT ![i] = data], status |-> "updated_by_username"]
                      : i \in byU}
        ELSE {[store |-> Append(store, data), status |-> "inserted_by_username"]}

\* grant_access: the (store, status) pairs the call may produce.
grant_access(store, sb, target0, role) ==
    LET target == Strip(target0)
        uname  == normalize_username(target)
        hasTid == IsDigit(target)
        tid    == IF hasTid THEN ToInt(target) ELSE NoId
        data   == Row(tid, uname, role, TRUE)
        byId   == RowsById(store, tid)
        byU    == RowsByUsername(store, uname)
    IN  IF ~sb THEN {[store |-> store, status |-> "not_configured"]}
        ELSE IF uname = NoText /\ ~hasTid
             THEN {[store |-> store, status |-> "invalid"]}
        ELSE IF hasTid
             THEN IF byId # {}
                  THEN {[store |-> [store EXCEPT ![i] = data], status |-> "updated_by_id"]
                           : i \in byId}
                  ELSE {[store |-> Append(store, data), status |-> "inserted_by_id"]}
        ELSE IF byU # {}
             THEN {[store |-> [store EXCEPT ![i] = data], status |-> "updated_by_username"]
                      : i \in byU}
        ELSE {[store |-> Append(store, data), status |-> "inserted_by_username"]}

\* A target grant_access and revoke_access do not reject: a numeric id or a
\* handle that is not empty once normalized.
ValidTarget(target0) ==
    normalize_username(Strip(target0)) # NoText \/ IsDigit(Strip(target0))

\* The rows a revoke of `target0` deactivates.
RevokeHits(store, target0) ==
    LET target == Strip(target0)
    IN  IF IsDigit(target) THEN RowsById(store, ToInt(target))
        ELSE RowsByUsername(store, normalize_username(target))

\* Mutant of revoke_access: the handle filter is given the target as typed,
\* with its leading "@".
revoke_access_raw_handle(store, sb, target0) ==
    LET target == Strip(target0)
        hit(r) == IF IsDigit(target) THEN r.telegram_id = ToInt(target)
                  ELSE r.username # NoText /\ ILike(r.username, target)
    IN  IF ~sb THEN [store |-> store, status |-> "not_configured"]
        ELSE IF normalize_username(target) = NoText /\ ~IsDigit(target)
             THEN [store |-> store, status |-> "invalid"]
        ELSE [store |-> [i \in DOMAIN store |->
                            IF hit(store[i]) THEN [store[i] EXCEPT !.is_active = FALSE]
                            ELSE store[i]],
              status |-> "revoked"]

\* revoke_access
revoke_access(store, sb, target0) ==
    LET target == Strip(target0)
        uname  == normalize_username(target)
    IN  IF ~sb THEN [store |-> store, status |-> "not_configured"]
        ELSE IF uname = NoText /\ ~IsDigit(target)
             THEN [store |-> store, status |-> "invalid"]
        ELSE [store |-> [i \in DOMAIN store |->
                            IF i \in RevokeHits(store, target0)
                            THEN [store[i] EXCEPT !.is_active = FALSE]
                            ELSE store[i]],
              status |-> "revoked"]

---------------------------------------------------------------------------
(* The access gate.  `down` says from which store call on the store is       *)
(* unreachable during this update: "no", "resolver" (the select of           *)
(* is_allowed_user), "reconcile" (upsert_user_identity), "op" (the handler's *)
(* own store call).  sb_exec has no except clause: a failed store call       *)
(* raises out of gate and out of the handler.                                *)

Down == {"no", "resolver", "reconcile", "op"}

\* Which select of upsert_user_identity finds a row to update.
UpsertKey(store, sb, user_id, username) ==
    IF ~sb THEN "none"
    ELSE IF RowsById(store, user_id) # {} THEN "id"
    ELSE IF normalize_username(username) # NoText
            /\ RowsByUsername(store, normalize_username(username)) # {} THEN "handle"
    ELSE "none"

GateResult(v, failed, key, store) ==
    [allowed |-> v.allowed, is_admin |-> v.is_admin, failed |-> failed,
     reconciled |-> key, store |-> store]

\* Mutant of gate: upsert_user_identity runs whatever is_allowed_user answered.
gate_upsert_when_denied(store, sb, user_id, username, down) ==
    IF user_id \notin ADMIN_IDS /\ sb /\ down = "resolver"
    THEN {GateResult(Verdict(FALSE, FALSE), "resolver", "none", store)}
    ELSE UNION {
           IF sb /\ down \in {"resolver", "reconcile"}
           THEN {GateResult(v, "reconcile", "none", store)}
           ELSE {GateResult(v, "no", UpsertKey(store, sb, user_id, username), s)
                    : s \in upsert_user_identity(store, sb, user_id, username)}
           : v \in is_allowed_user(store, sb, user_id, username)}

\* gate: is_allowed_user, then upsert_user_identity when allowed.
gate(store, sb, user_id, username, down) ==
    IF user_id \notin ADMIN_IDS /\ sb /\ down = "resolver"
    THEN {GateResult(Verdict(FALSE, FALSE), "resolver", "none", store)}
    ELSE UNION {
           IF ~v.allowed THEN {GateResult(v, "no", "none", store)}
           ELSE IF sb /\ down \in {"resolver", "reconcile"}
                THEN {GateResult(v, "reconcile", "none", store)}
           ELSE {GateResult(v, "no", UpsertKey(store, sb, user_id, username), s)
                    : s \in upsert_user_identity(store, sb, user_id, username)}
           : v \in is_allowed_user(store, sb, user_id, username)}

---------------------------------------------------------------------------
(* Users, menu texts, sessions *)

UserIds == {1, 2}

\* Reply-keyboard button labels; "$" stands for the label's emoji.
BTN_BIN   == <<"$", "B">>
BTN_CP    == <<"$", "C">>
BTN_ADMIN == <<"$", "A">>
BTN_HELP  == <<"$", "H">>

MODE_BIN  == "bin"
MODE_NONE == "none"

\* user_data of a user who has sent nothing yet.  mode reads as MODE_BIN when
\* absent (check_card_message), cp_name and cp_comment as "", cp_color as
\* "yellow" when "unset", adm_action as None ("none").  is_admin is written by
\* gate and read by no handler.
NewUserData ==
    [mode |-> MODE_BIN, is_admin |-> FALSE, cp_name |-> NoText, cp_color |-> "unset",
     cp_comment |-> NoText, adm_action |-> "none"]

\* No card was rendered.
NoCard == [dominant |-> "-", red |-> 0, yellow |-> 0, green |-> 0]

NoEvent ==
    [handler |-> "-", conv |-> "-", user |-> 0, uname |-> NoText,
     allowed |-> FALSE, is_admin |-> FALSE, failed |-> "no", raised |-> FALSE,
     reconciled |-> "none", denied |-> FALSE,
     op |-> "none", status |-> "-", text |-> NoText, data |-> "-",
     looked |-> FALSE, classified |-> FALSE,
     bin |-> [issuer |-> "-", country |-> "-", calls |-> 0], remote |-> "-",
     card |-> NoCard]

\* What is observed of an update: the handler and conversation that took it,
\* the caller, the verdict of the handler's first is_allowed_user call, the
\* store call that failed (if any) and whether an exception left the handler,
\* the key by which upsert_user_identity found the caller's row, whether
\* deny() answered, the store operation run and its status.
Event(h, conv, u, un, g) ==
    [NoEvent EXCEPT !.handler = h, !.conv = conv, !.user = u, !.uname = un,
                    !.allowed = g.allowed, !.is_admin = g.is_admin,
                    !.failed = g.failed, !.raised = (g.failed # "no"),
                    !.reconciled = g.reconciled]

\* gate's last line: context.user_data["is_admin"] = is_admin
Cached(u, g) == [user_data EXCEPT ![u].is_admin = g.is_admin]

---------------------------------------------------------------------------
(* Messages of a chat.  Telegram numbers the messages of a chat in order,    *)
(* so the id of a message is its index in `kind`, which keeps who sent it    *)
(* and, for the bot's messages, whether it shows a BIN result.  `live` are   *)
(* the messages not deleted.  last_bot_msg_id and last_bin_msg_id are the    *)
(* two keys of context.user_data.  received, sent, edited, del and failed    *)
(* describe the last update only: the caller's message, the message the bot  *)
(* sent, the one it edited, the deletions it asked for (in order) and the    *)
(* ones that raised.  A chat that is not observed is left alone.             *)

NoMsg == 0

NoChat ==
    [observed |-> FALSE, kind |-> <<>>, live |-> {},
     last_bot_msg_id |-> NoMsg, last_bin_msg_id |-> NoMsg,
     received |-> NoMsg, sent |-> NoMsg, edited |-> NoMsg, del |-> <<>>, failed |-> {}]

\* safe_delete_message: bot.delete_message inside try/except Exception: pass.
\* The call raises when Telegram refuses (ok = FALSE) or the message is gone.
safe_delete_message(m, mid, ok) ==
    LET done == ok /\ mid \in m.live
    IN  [m EXCEPT !.live = IF done THEN @ \ {mid} ELSE @,
                  !.del = Append(@, mid),
                  !.failed = IF done THEN @ ELSE @ \cup {mid}]

\* remember_bot_message
remember_bot_message(m, message_id) == [m EXCEPT !.last_bot_msg_id = message_id]

\* cleanup_previous_bot_message
cleanup_previous_bot_message(m, ok) ==
    IF m.last_bot_msg_id # NoMsg
    THEN [safe_delete_message(m, m.last_bot_msg_id, ok) EXCEPT !.last_bot_msg_id = NoMsg]
    ELSE m

\* message.reply_text: a new message of the bot, the next id of the chat
reply_text(m, k) ==
    [m EXCEPT !.kind = Append(@, k), !.live = @ \cup {Len(m.kind) + 1},
              !.sent = Len(m.kind) + 1]

\* safe_edit_or_send.  cb: the update is a callback query, whose message is c.q;
\* c.edit_ok: edit_text did not raise; c.fails: the deletions Telegram refuses.
safe_edit_or_send(m, cb, k, c) ==
    IF cb
    THEN IF c.edit_ok
         THEN [m EXCEPT !.kind[c.q] = k, !.edited = c.q]
         ELSE LET a == reply_text(m, k) IN remember_bot_message(a, a.sent)
    ELSE LET a == reply_text(cleanup_previous_bot_message(m, "bot" \notin c.fails), k)
         IN  remember_bot_message(a, a.sent)

\* try_delete_user_message: update.message.delete() inside try/except
try_delete_user_message(m, ok) ==
    LET done == ok /\ m.received \in m.live
    IN  [m EXCEPT !.live = IF done THEN @ \ {m.received} ELSE @,
                  !.del = Append(@, m.received),
                  !.failed = IF done THEN @ ELSE @ \cup {m.received}]

\* Mutant of cleanup_previous_bin_message: the id of the current message is
\* not stored.
cleanup_previous_bin_message_keeps_old_id(m, ok) ==
    IF m.last_bin_msg_id # NoMsg
    THEN safe_delete_message(m, m.last_bin_msg_id, ok) ELSE m

\* cleanup_previous_bin_message: the id stored is update.message.message_id
cleanup_previous_bin_message(m, ok) ==
    LET a == IF m.last_bin_msg_id # NoMsg
             THEN safe_delete_message(m, m.last_bin_msg_id, ok) ELSE m
    IN  IF m.received # NoMsg THEN [a EXCEPT !.last_bin_msg_id = m.received] ELSE a

\* Mutant of clear_bin_history: the key is reset only when the deletion went
\* through.
clear_bin_history_keeps_id_on_failure(m, ok) ==
    IF m.last_bin_msg_id # NoMsg
    THEN LET a == safe_delete_message(m, m.last_bin_msg_id, ok)
         IN  IF m.last_bin_msg_id \in a.failed THEN a
             ELSE [a EXCEPT !.last_bin_msg_id = NoMsg]
    ELSE m

\* clear_bin_history
clear_bin_history(m, ok) ==
    LET a == IF m.last_bin_msg_id # NoMsg
             THEN safe_delete_message(m, m.last_bin_msg_id, ok) ELSE m
    IN  [a EXCEPT !.last_bin_msg_id = NoMsg]

\* deny: reply_text, and the id of the reply is kept nowhere
deny(m) == reply_text(m, "text")

\* The handlers of message updates; the others take callback queries.
MessageHandlers ==
    {"start", "help_cmd", "on_menu_button", "check_card_message", "cp_entry",
     "cp_receive_name", "cp_comment", "admin_entry", "admin_target"}

\* The caller's message enters the chat (a callback query brings none).
Arrived(m, e) ==
    LET a == [m EXCEPT !.received = NoMsg, !.sent = NoMsg, !.edited = NoMsg,
                       !.del = <<>>, !.failed = {}]
    IN  IF e.handler \in MessageHandlers
        THEN [a EXCEPT !.kind = Append(@, "user"), !.live = @ \cup {Len(m.kind) + 1},
                       !.received = Len(m.kind) + 1]
        ELSE a

\* What a handler that passed the gate does to the chat before it answers:
\* start, help_cmd (also when on_menu_button calls it), cp_entry and the
\* admin branch of admin_entry call clear_bin_history; check_card_message calls
\* cleanup_previous_bin_message once the text is a BIN; cp_receive_name,
\* cp_comment (on accepted text) and admin_target call try_delete_user_message.
BeforeAnswer(m, e, c) ==
    LET h == e.handler
    IN  IF \/ h \in {"start", "help_cmd", "cp_entry"}
           \/ h = "admin_entry" /\ e.is_admin
           \/ h = "on_menu_button" /\ e.status = "help"
        THEN clear_bin_history(m, "bin" \notin c.fails)
        ELSE IF h = "check_card_message" /\ e.classified
        THEN cleanup_previous_bin_message(m, "bin" \notin c.fails)
        ELSE IF \/ h = "cp_receive_name" /\ Strip(e.text) # NoText
                \/ h = "cp_comment" /\ e.status # "too_short"
                \/ h = "admin_target"
        THEN try_delete_user_message(m, "user" \notin c.fails)
        ELSE m

\* The chat after the update observed as e: nothing is sent when gate raised
\* (e.failed names the store call); deny() answers a refused caller; a store
\* call of the handler that raises (e.failed = "op") comes after the
\* deletions and before the answer.
ChatEffect(m, e, c) ==
    LET a == Arrived(m, e)
    IN  IF e.handler = "-" \/ e.failed \notin {"no", "op"} THEN a
        ELSE IF e.denied THEN deny(a)
        ELSE IF e.failed = "op" THEN BeforeAnswer(a, e, c)
        ELSE safe_edit_or_send(BeforeAnswer(a, e, c), e.handler \notin MessageHandlers,
                               IF e.classified THEN "bin_result" ELSE "text", c)

\* What Telegram may do with the calls of one update.  A callback query comes
\* from a button of a message of the bot that is still in the chat.
ChatInputs(m, e) ==
    IF e.handler \in MessageHandlers
    THEN {[fails |-> f, edit_ok |-> TRUE, q |-> NoMsg] : f \in SUBSET {"bin", "bot", "user"}}
    ELSE IF e.handler = "-"
    THEN {[fails |-> {}, edit_ok |-> TRUE, q |-> NoMsg]}
    ELSE {[fails |-> {}, edit_ok |-> k, q |-> i] :
            k \in BOOLEAN, i \in {j \in m.live : m.kind[j] # "user"}}

\* The chat part of every handler.
Chat(u) ==
    IF ~msgs[u].observed
    THEN msgs' = msgs
    ELSE /\ Len(msgs[u].kind) + 2 <= MaxMsgs
         /\ \E c \in ChatInputs(msgs[u], ev') :
              msgs' = [msgs EXCEPT ![u] = ChatEffect(msgs[u], ev', c)]

---------------------------------------------------------------------------
(* Dispatch: the handlers are all in group 0, so an update goes to the first *)
(* registered handler that accepts it: CommandHandler start, CommandHandler  *)
(* help, cp_conv, adm_conv, the menu MessageHandler, the BIN MessageHandler. *)
(* A ConversationHandler (allow_reentry) accepts an update that matches an   *)
(* entry point, else one that matches a handler of the current state, else   *)
(* one that matches a fallback.  /start never reaches a fallback: the first  *)
(* CommandHandler takes it.                                                  *)

CpTakesText(u, t) ==
    t = BTN_CP \/ cp_state[u] \in {"CP_WAIT_NAME", "CP_WAIT_COMMENT"}

AdmTakesText(u, t) ==
    ~CpTakesText(u, t) /\ (t = BTN_ADMIN \/ adm_state[u] = "ADM_WAIT_TARGET")

MenuTakesText(u, t) ==
    ~CpTakesText(u, t) /\ ~AdmTakesText(u, t) /\ t \in {BTN_BIN, BTN_HELP, BTN_ADMIN}

BinTakesText(u, t) ==
    ~CpTakesText(u, t) /\ ~AdmTakesText(u, t) /\ ~MenuTakesText(u, t)

\* Mutant of the cp_conv states: cp_confirm_cb is also registered in CP_WAIT_COLOR.
CpTakesData_confirm_in_color(u, d) ==
    \/ cp_state[u] = "CP_WAIT_NAME" /\ d \in {"cp:add", "menu:back"}
    \/ cp_state[u] = "CP_WAIT_COLOR"
         /\ d \in {"cp:color:red", "cp:color:yellow", "cp:color:green", "cp:cancel", "menu:back",
                   "cp:confirm:yes", "cp:confirm:no"}
    \/ cp_state[u] = "CP_WAIT_CONFIRM" /\ d \in {"cp:confirm:yes", "cp:confirm:no"}

CpTakesData(u, d) ==
    \/ cp_state[u] = "CP_WAIT_NAME" /\ d \in {"cp:add", "menu:back"}
    \/ cp_state[u] = "CP_WAIT_COLOR"
         /\ d \in {"cp:color:red", "cp:color:yellow", "cp:color:green", "cp:cancel", "menu:back"}
    \/ cp_state[u] = "CP_WAIT_CONFIRM" /\ d \in {"cp:confirm:yes", "cp:confirm:no"}

AdmTakesData(u, d) ==
    /\ ~CpTakesData(u, d)
    /\ \/ adm_state[u] = "ADM_WAIT_ACTION" /\ d \in {"adm:grant", "adm:revoke", "menu:back"}
       \/ adm_state[u] = "ADM_WAIT_TARGET" /\ d = "menu:back"

\* Mutant of LastPart: q.data.split(":")[1], the second part instead of the last.
LastPart_second(d) ==
    CASE d = "adm:grant" -> "grant" [] d = "adm:revoke" -> "revoke"
      [] d = "cp:confirm:yes" -> "confirm" [] d = "cp:confirm:no" -> "confirm"
      [] d = "cp:color:red" -> "color" [] d = "cp:color:yellow" -> "color"
      [] d = "cp:color:green" -> "color"
      [] d = "cp:add" -> "add" [] d = "cp:cancel" -> "cancel" [] d = "menu:back" -> "back"

\* _, _, color = q.data.split(":")
ColorPart(d) ==
    CASE d = "cp:color:red" -> "red" [] d = "cp:color:yellow" -> "yellow"
      [] d = "cp:color:green" -> "green"

\* q.data.split(":")[-1]
LastPart(d) ==
    CASE d = "adm:grant" -> "grant" [] d = "adm:revoke" -> "revoke"
      [] d = "cp:confirm:yes" -> "yes" [] d = "cp:confirm:no" -> "no"
      [] d = "cp:color:red" -> "red" [] d = "cp:color:yellow" -> "yellow"
      [] d = "cp:color:green" -> "green"
      [] d = "cp:add" -> "add" [] d = "cp:cancel" -> "cancel" [] d = "menu:back" -> "back"

---------------------------------------------------------------------------
(* Commands *)

\* start
Start(u, un, down) ==
    /\ supabase
    /\ \E g \in gate(access_list, supabase, u, un, down) :
         /\ access_list' = g.store
         /\ UNCHANGED <<supabase, latest, counterparty_tags, cp_state, adm_state>>
         /\ IF g.failed # "no"
            THEN /\ user_data' = user_data
                 /\ ev' = Event("start", "-", u, un, g)
            ELSE IF ~g.allowed
            THEN /\ user_data' = Cached(u, g)
                 /\ ev' = [Event("start", "-", u, un, g) EXCEPT !.denied = TRUE]
            ELSE /\ user_data' = [Cached(u, g) EXCEPT ![u].mode = MODE_BIN]
                 /\ ev' = Event("start", "-", u, un, g)
    /\ Chat(u)

\* help_cmd
HelpCmd(u, un, down) ==
    /\ supabase
    /\ \E g \in gate(access_list, supabase, u, un, down) :
         /\ access_list' = g.store
         /\ UNCHANGED <<supabase, latest, counterparty_tags, cp_state, adm_state>>
         /\ IF g.failed # "no"
            THEN /\ user_data' = user_data
                 /\ ev' = Event("help_cmd", "-", u, un, g)
            ELSE /\ user_data' = Cached(u, g)
                 /\ ev' = [Event("help_cmd", "-", u, un, g) EXCEPT !.denied = ~g.allowed]
    /\ Chat(u)

---------------------------------------------------------------------------
(* Admin access workflow *)

\* admin_entry
AdminEntry(u, un, down, t) ==
    /\ supabase
    /\ AdmTakesText(u, t) /\ t = BTN_ADMIN
    /\ \E g \in gate(access_list, supabase, u, un, down) :
         LET e == [Event("admin_entry", "adm", u, un, g) EXCEPT !.text = t]
         IN
         /\ access_list' = g.store
         /\ UNCHANGED <<supabase, latest, counterparty_tags, cp_state>>
         /\ IF g.failed # "no"
            THEN /\ UNCHANGED <<user_data, adm_state>>
                 /\ ev' = e
            ELSE IF ~g.allowed \/ ~g.is_admin
            THEN /\ user_data' = Cached(u, g)
                 /\ adm_state' = [adm_state EXCEPT ![u] = "END"]
                 /\ ev' = [e EXCEPT !.denied = ~g.allowed]
            ELSE /\ user_data' = [Cached(u, g) EXCEPT ![u].mode = MODE_NONE]
                 /\ adm_state' = [adm_state EXCEPT ![u] = "ADM_WAIT_ACTION"]
                 /\ ev' = e
    /\ Chat(u)

\* Mutant of admin_action_cb: the `not is_admin` test is missing.
AdminActionCb_no_admin_test(u, un, down, d) ==
    /\ supabase
    /\ AdmTakesData(u, d) /\ d \in {"adm:grant", "adm:revoke"}
    /\ \E g \in gate(access_list, supabase, u, un, down) :
         LET e == [Event("admin_action_cb", "adm", u, un, g) EXCEPT !.data = d]
         IN
         /\ access_list' = g.store
         /\ UNCHANGED <<supabase, latest, counterparty_tags, cp_state>>
         /\ IF g.failed # "no"
            THEN /\ UNCHANGED <<user_data, adm_state>>
                 /\ ev' = e
            ELSE IF ~g.allowed
            THEN /\ user_data' = Cached(u, g)
                 /\ adm_state' = [adm_state EXCEPT ![u] = "END"]
                 /\ ev' = [e EXCEPT !.denied = TRUE]
            ELSE /\ user_data' = [Cached(u, g) EXCEPT ![u].adm_action = LastPart(d)]
                 /\ adm_state' = [adm_state EXCEPT ![u] = "ADM_WAIT_TARGET"]
                 /\ ev' = e
    /\ Chat(u)

\* admin_action_cb
AdminActionCb(u, un, down, d) ==
    /\ supabase
    /\ AdmTakesData(u, d) /\ d \in {"adm:grant", "adm:revoke"}
    /\ \E g \in gate(access_list, supabase, u, un, down) :
         LET e == [Event("admin_action_cb", "adm", u, un, g) EXCEPT !.data = d]
         IN
         /\ access_list' = g.store
         /\ UNCHANGED <<supabase, latest, counterparty_tags, cp_state>>
         /\ IF g.failed # "no"
            THEN /\ UNCHANGED <<user_data, adm_state>>
                 /\ ev' = e
            ELSE IF ~g.allowed \/ ~g.is_admin
            THEN /\ user_data' = Cached(u, g)
                 /\ adm_state' = [adm_state EXCEPT ![u] = "END"]
                 /\ ev' = [e EXCEPT !.denied = TRUE]
            ELSE /\ user_data' = [Cached(u, g) EXCEPT ![u].adm_action = LastPart(d)]
                 /\ adm_state' = [adm_state EXCEPT ![u] = "ADM_WAIT_TARGET"]
                 /\ ev' = e
    /\ Chat(u)

\* admin_target
AdminTarget(u, un, down, t) ==
    /\ supabase
    /\ AdmTakesText(u, t) /\ t # BTN_ADMIN
    /\ \E g \in gate(access_list, supabase, u, un, down) :
         LET e      == [Event("admin_target", "adm", u, un, g) EXCEPT !.text = t]
             target == Strip(t)
             action == user_data[u].adm_action
         IN
         /\ UNCHANGED <<supabase, latest, counterparty_tags, cp_state>>
         /\ IF g.failed # "no"
            THEN /\ access_list' = g.store
                 /\ UNCHANGED <<user_data, adm_state>>
                 /\ ev' = e
            ELSE IF ~g.allowed \/ ~g.is_admin
            THEN /\ access_list' = g.store
                 /\ user_data' = Cached(u, g)
                 /\ adm_state' = [adm_state EXCEPT ![u] = "END"]
                 /\ ev' = [e EXCEPT !.denied = TRUE]
            ELSE IF action \in {"grant", "revoke"} /\ ValidTarget(target) /\ down = "op"
            THEN /\ access_list' = g.store
                 /\ user_data' = Cached(u, g)
                 /\ adm_state' = adm_state
                 /\ ev' = [e EXCEPT !.failed = "op", !.raised = TRUE]
            ELSE IF action = "grant"
            THEN \E r \in grant_access(g.store, supabase, target, "user") :
                   /\ Len(r.store) <= MaxRows
                   /\ access_list' = r.store
                   /\ user_data' = Cached(u, g)
                   /\ adm_state' = [adm_state EXCEPT ![u] = "ADM_WAIT_ACTION"]
                   /\ ev' = [e EXCEPT !.op = "grant", !.status = r.status]
            ELSE IF action = "revoke"
            THEN LET r == revoke_access(g.store, supabase, target)
                 IN  /\ access_list' = r.store
                     /\ user_data' = Cached(u, g)
                     /\ adm_state' = [adm_state EXCEPT ![u] = "ADM_WAIT_ACTION"]
                     /\ ev' = [e EXCEPT !.op = "revoke", !.status = r.status]
            ELSE /\ access_list' = g.store
                 /\ user_data' = Cached(u, g)
                 /\ adm_state' = [adm_state EXCEPT ![u] = "END"]
                 /\ ev' = e
    /\ Chat(u)

\* back_to_menu_cb, registered in both conversations
BackToMenuCb(u, un, down, d) ==
    /\ supabase
    /\ d = "menu:back" /\ (CpTakesData(u, d) \/ AdmTakesData(u, d))
    /\ \E g \in gate(access_list, supabase, u, un, down) :
         LET conv == IF CpTakesData(u, d) THEN "cp" ELSE "adm"
             e    == [Event("back_to_menu_cb", conv, u, un, g) EXCEPT !.data = d]
         IN
         /\ access_list' = g.store
         /\ UNCHANGED <<supabase, latest, counterparty_tags>>
         /\ IF g.failed # "no"
            THEN /\ UNCHANGED <<user_data, cp_state, adm_state>>
                 /\ ev' = e
            ELSE /\ user_data' = IF g.allowed THEN [Cached(u, g) EXCEPT ![u].mode = MODE_BIN]
                                 ELSE Cached(u, g)
                 /\ cp_state' = IF conv = "cp" THEN [cp_state EXCEPT ![u] = "END"] ELSE cp_state
                 /\ adm_state' = IF conv = "adm" THEN [adm_state EXCEPT ![u] = "END"] ELSE adm_state
                 /\ ev' = [e EXCEPT !.denied = ~g.allowed]
    /\ Chat(u)

\* A callback query that matches no handler of the caller's conversation
\* states: no handler runs, not even gate, and nothing changes.
Unhandled(u, un, d) ==
    /\ supabase
    /\ ~CpTakesData(u, d) /\ ~AdmTakesData(u, d)
    /\ ev' = [NoEvent EXCEPT !.user = u, !.uname = un, !.data = d]
    /\ UNCHANGED <<supabase, access_list, counterparty_tags, user_data,
                   cp_state, adm_state, latest>>
    /\ Chat(u)

---------------------------------------------------------------------------
(* Counterparty tags *)

\* Mutant of the insert payload: the counterparty is stripped but not lower-cased.
Tag_no_lower(cp, color, comment, by_id, by_username) ==
    [counterparty |-> Strip(cp), color |-> color, comment |-> Strip(comment),
     created_by_telegram_id |-> by_id, created_by_username |-> normalize_username(by_username)]

\* The payload save_counterparty_tag inserts
Tag(cp, color, comment, by_id, by_username) ==
    [counterparty |-> LowerStr(Strip(cp)), color |-> color, comment |-> Strip(comment),
     created_by_telegram_id |-> by_id, created_by_username |-> normalize_username(by_username)]

\* save_counterparty_tag: one insert
save_counterparty_tag(tags, sb, cp, color, comment, by_id, by_username) ==
    IF ~sb THEN tags ELSE Append(tags, Tag(cp, color, comment, by_id, by_username))

RECURSIVE NewestFirst(_, _, _)
\* The first `limit` rows of `tags` matching `key`, newest (last inserted) first.
NewestFirst(tags, key, limit) ==
    IF tags = <<>> \/ limit = 0 THEN <<>>
    ELSE LET last == tags[Len(tags)]
             rest == SubSeq(tags, 1, Len(tags) - 1)
         IN  IF ILike(last.counterparty, key)
             THEN <<last>> \o NewestFirst(rest, key, limit - 1)
             ELSE NewestFirst(rest, key, limit)

\* fetch_counterparty_tags
fetch_counterparty_tags(tags, sb, counterparty, limit) ==
    IF ~sb THEN <<>>
    ELSE IF Strip(counterparty) = NoText THEN <<>>
    ELSE NewestFirst(tags, LowerStr(Strip(counterparty)), limit)

FetchLimit == 10

\* Whether fetch_counterparty_tags issues a select for this name.
FetchTouchesStore(sb, counterparty) == sb /\ Strip(counterparty) # NoText

\* (t.get("color") or "").lower() on the colours the table holds
ColorLower(c) ==
    CASE c = "RED" -> "red" [] c = "YELLOW" -> "yellow" [] c = "GREEN" -> "green"
      [] OTHER -> c

\* counts[c] after the loop over the tags
CountColor(tags, c) ==
    Cardinality({i \in DOMAIN tags : ColorLower(tags[i].color) = c})

priority == [red |-> 3, yellow |-> 2, green |-> 1]

\* Python's order on the key tuples (counts[c], priority[c])
KeyLess(a, b) == a[1] < b[1] \/ (a[1] = b[1] /\ a[2] < b[2])

\* Mutant of dominant: the maximum is taken by the count alone and the last
\* maximal key is kept.
dominant_last_maximum(counts) ==
    LET key(c) == <<counts[c], 0>>
        b1 == "red"
        b2 == IF ~KeyLess(key("yellow"), key(b1)) THEN "yellow" ELSE b1
        b3 == IF ~KeyLess(key("green"), key(b2)) THEN "green" ELSE b2
    IN  b3

\* max(counts.keys(), key=lambda c: (counts[c], priority[c])): the keys are
\* visited in the dict's order red, yellow, green and the first maximal one
\* is returned.
dominant(counts) ==
    LET key(c) == <<counts[c], priority[c]>>
        b1 == "red"
        b2 == IF KeyLess(key(b1), key("yellow")) THEN "yellow" ELSE b1
        b3 == IF KeyLess(key(b2), key("green")) THEN "green" ELSE b2
    IN  b3

\* render_counterparty_card: the status and the counters the card shows.
render_counterparty_card(tags) ==
    IF tags = <<>> THEN [NoCard EXCEPT !.dominant = "no_marks"]
    ELSE LET counts == [c \in {"red", "yellow", "green"} |-> CountColor(tags, c)]
         IN  [dominant |-> dominant(counts), red |-> counts["red"],
              yellow |-> counts["yellow"], green |-> counts["green"]]

---------------------------------------------------------------------------
(* Counterparty tagging workflow *)

\* cp_entry
CpEntry(u, un, down, t) ==
    /\ supabase
    /\ CpTakesText(u, t) /\ t = BTN_CP
    /\ \E g \in gate(access_list, supabase, u, un, down) :
         LET e == Event("cp_entry", "cp", u, un, g)
         IN
         /\ access_list' = g.store
         /\ UNCHANGED <<supabase, latest, counterparty_tags, adm_state>>
         /\ IF g.failed # "no"
            THEN /\ UNCHANGED <<user_data, cp_state>>
                 /\ ev' = e
            ELSE IF ~g.allowed
            THEN /\ user_data' = Cached(u, g)
                 /\ cp_state' = [cp_state EXCEPT ![u] = "END"]
                 /\ ev' = [e EXCEPT !.denied = TRUE]
            ELSE /\ user_data' = [Cached(u, g) EXCEPT ![u].mode = MODE_NONE]
                 /\ cp_state' = [cp_state EXCEPT ![u] = "CP_WAIT_NAME"]
                 /\ ev' = e
    /\ Chat(u)

\* cp_receive_name
CpReceiveName(u, un, down, t) ==
    /\ supabase
    /\ CpTakesText(u, t) /\ t # BTN_CP /\ cp_state[u] = "CP_WAIT_NAME"
    /\ \E g \in gate(access_list, supabase, u, un, down) :
         LET e  == [Event("cp_receive_name", "cp", u, un, g) EXCEPT !.text = t]
             cp == Strip(t)
         IN
         /\ access_list' = g.store
         /\ UNCHANGED <<supabase, counterparty_tags, adm_state>>
         /\ latest' = IF g.failed = "no" /\ g.allowed /\ cp # NoText
                      THEN [latest EXCEPT ![u].name = t] ELSE latest
         /\ IF g.failed # "no"
            THEN /\ UNCHANGED <<user_data, cp_state>>
                 /\ ev' = e
            ELSE IF ~g.allowed
            THEN /\ user_data' = Cached(u, g)
                 /\ cp_state' = [cp_state EXCEPT ![u] = "END"]
                 /\ ev' = [e EXCEPT !.denied = TRUE]
            ELSE IF cp = NoText
            THEN /\ user_data' = Cached(u, g)
                 /\ cp_state' = [cp_state EXCEPT ![u] = "CP_WAIT_NAME"]
                 /\ ev' = e
            ELSE /\ user_data' = [Cached(u, g) EXCEPT ![u].cp_name = cp]
                 /\ cp_state' = IF down = "op" /\ FetchTouchesStore(supabase, cp)
                                THEN cp_state
                                ELSE [cp_state EXCEPT ![u] = "CP_WAIT_NAME"]
                 /\ ev' = IF down = "op" /\ FetchTouchesStore(supabase, cp)
                          THEN [e EXCEPT !.looked = TRUE, !.failed = "op", !.raised = TRUE]
                          ELSE [e EXCEPT !.looked = TRUE,
                                         !.card = render_counterparty_card(
                                                    fetch_counterparty_tags(
                                                      counterparty_tags, supabase, cp, FetchLimit))]
    /\ Chat(u)

\* cp_add_tag_cb
CpAddTagCb(u, un, down, d) ==
    /\ supabase
    /\ CpTakesData(u, d) /\ d = "cp:add"
    /\ \E g \in gate(access_list, supabase, u, un, down) :
         LET e == [Event("cp_add_tag_cb", "cp", u, un, g) EXCEPT !.data = d]
         IN
         /\ access_list' = g.store
         /\ UNCHANGED <<supabase, latest, counterparty_tags, adm_state>>
         /\ IF g.failed # "no"
            THEN /\ UNCHANGED <<user_data, cp_state>>
                 /\ ev' = e
            ELSE /\ user_data' = Cached(u, g)
                 /\ cp_state' = [cp_state EXCEPT ![u] = IF g.allowed THEN "CP_WAIT_COLOR" ELSE "END"]
                 /\ ev' = [e EXCEPT !.denied = ~g.allowed]
    /\ Chat(u)

\* cp_color_cb
CpColorCb(u, un, down, d) ==
    /\ supabase
    /\ CpTakesData(u, d) /\ d \in {"cp:color:red", "cp:color:yellow", "cp:color:green"}
    /\ \E g \in gate(access_list, supabase, u, un, down) :
         LET e == [Event("cp_color_cb", "cp", u, un, g) EXCEPT !.data = d]
         IN
         /\ access_list' = g.store
         /\ UNCHANGED <<supabase, counterparty_tags, adm_state>>
         /\ latest' = IF g.failed = "no" /\ g.allowed
                      THEN [latest EXCEPT ![u].color = d] ELSE latest
         /\ IF g.failed # "no"
            THEN /\ UNCHANGED <<user_data, cp_state>>
                 /\ ev' = e
            ELSE IF ~g.allowed
            THEN /\ user_data' = Cached(u, g)
                 /\ cp_state' = [cp_state EXCEPT ![u] = "END"]
                 /\ ev' = [e EXCEPT !.denied = TRUE]
            ELSE /\ user_data' = [Cached(u, g) EXCEPT ![u].cp_color = ColorPart(d)]
                 /\ cp_state' = [cp_state EXCEPT ![u] = "CP_WAIT_COMMENT"]
                 /\ ev' = e
    /\ Chat(u)

MinCommentLen == 2

\* Mutant of cp_comment: the text is measured and stored without strip().
CpComment_no_strip(u, un, down, t) ==
    /\ supabase
    /\ CpTakesText(u, t) /\ t # BTN_CP /\ cp_state[u] = "CP_WAIT_COMMENT"
    /\ \E g \in gate(access_list, supabase, u, un, down) :
         LET e == [Event("cp_comment", "cp", u, un, g) EXCEPT !.text = t]
         IN
         /\ access_list' = g.store
         /\ UNCHANGED <<supabase, counterparty_tags, adm_state>>
         /\ latest' = IF g.failed = "no" /\ g.allowed /\ Len(t) >= MinCommentLen
                      THEN [latest EXCEPT ![u].comment = t] ELSE latest
         /\ IF g.failed # "no"
            THEN /\ UNCHANGED <<user_data, cp_state>>
                 /\ ev' = e
            ELSE IF ~g.allowed
            THEN /\ user_data' = Cached(u, g)
                 /\ cp_state' = [cp_state EXCEPT ![u] = "END"]
                 /\ ev' = [e EXCEPT !.denied = TRUE]
            ELSE IF Len(t) < MinCommentLen
            THEN /\ user_data' = Cached(u, g)
                 /\ cp_state' = [cp_state EXCEPT ![u] = "CP_WAIT_COMMENT"]
                 /\ ev' = [e EXCEPT !.status = "too_short"]
            ELSE /\ user_data' = [Cached(u, g) EXCEPT ![u].cp_comment = t]
                 /\ cp_state' = [cp_state EXCEPT ![u] = "CP_WAIT_CONFIRM"]
                 /\ ev' = e
    /\ Chat(u)

\* cp_comment
CpComment(u, un, down, t) ==
    /\ supabase
    /\ CpTakesText(u, t) /\ t # BTN_CP /\ cp_state[u] = "CP_WAIT_COMMENT"
    /\ \E g \in gate(access_list, supabase, u, un, down) :
         LET e       == [Event("cp_comment", "cp", u, un, g) EXCEPT !.text = t]
             comment == Strip(t)
         IN
         /\ access_list' = g.store
         /\ UNCHANGED <<supabase, counterparty_tags, adm_state>>
         /\ latest' = IF g.failed = "no" /\ g.allowed /\ Len(comment) >= MinCommentLen
                      THEN [latest EXCEPT ![u].comment = t] ELSE latest
         /\ IF g.failed # "no"
            THEN /\ UNCHANGED <<user_data, cp_state>>
                 /\ ev' = e
            ELSE IF ~g.allowed
            THEN /\ user_data' = Cached(u, g)
                 /\ cp_state' = [cp_state EXCEPT ![u] = "END"]
                 /\ ev' = [e EXCEPT !.denied = TRUE]
            ELSE IF Len(comment) < MinCommentLen
            THEN /\ user_data' = Cached(u, g)
                 /\ cp_state' = [cp_state EXCEPT ![u] = "CP_WAIT_COMMENT"]
                 /\ ev' = [e EXCEPT !.status = "too_short"]
            ELSE /\ user_data' = [Cached(u, g) EXCEPT ![u].cp_comment = comment]
                 /\ cp_state' = [cp_state EXCEPT ![u] = "CP_WAIT_CONFIRM"]
                 /\ ev' = e
    /\ Chat(u)

\* cp_confirm_cb
CpConfirmCb(u, un, down, d) ==
    /\ supabase
    /\ CpTakesData(u, d) /\ d \in {"cp:confirm:yes", "cp:confirm:no"}
    /\ \E g \in gate(access_list, supabase, u, un, down) :
         LET e       == [Event("cp_confirm_cb", "cp", u, un, g) EXCEPT !.data = d]
             cp      == Strip(user_data[u].cp_name)
             color   == IF user_data[u].cp_color = "unset" THEN "yellow"
                        ELSE user_data[u].cp_color
             comment == Strip(user_data[u].cp_comment)
         IN
         /\ access_list' = g.store
         /\ UNCHANGED <<supabase, latest, adm_state>>
         /\ IF g.failed # "no"
            THEN /\ UNCHANGED <<user_data, cp_state, counterparty_tags>>
                 /\ ev' = e
            ELSE IF ~g.allowed
            THEN /\ user_data' = Cached(u, g)
                 /\ cp_state' = [cp_state EXCEPT ![u] = "END"]
                 /\ counterparty_tags' = counterparty_tags
                 /\ ev' = [e EXCEPT !.denied = TRUE]
            ELSE IF LastPart(d) = "no"
            THEN /\ user_data' = Cached(u, g)
                 /\ cp_state' = [cp_state EXCEPT ![u] = "CP_WAIT_NAME"]
                 /\ counterparty_tags' = counterparty_tags
                 /\ ev' = e
            ELSE IF down = "op"
            THEN /\ user_data' = Cached(u, g)
                 /\ UNCHANGED <<cp_state, counterparty_tags>>
                 /\ ev' = [e EXCEPT !.failed = "op", !.raised = TRUE]
            ELSE /\ Len(counterparty_tags) < MaxTags
                 /\ user_data' = Cached(u, g)
                 /\ counterparty_tags' =
                        save_counterparty_tag(counterparty_tags, supabase, cp, color, comment, u, un)
                 /\ cp_state' = [cp_state EXCEPT ![u] = "CP_WAIT_NAME"]
                 /\ ev' = [e EXCEPT !.op = "save", !.looked = TRUE,
                                    !.card = render_counterparty_card(
                                               fetch_counterparty_tags(
                                                 counterparty_tags', supabase, cp, FetchLimit))]
    /\ Chat(u)

\* Mutant of cp_cancel_cb: the handler goes on although the gate denied.
CpCancelCb_ignores_gate(u, un, down, d) ==
    /\ supabase
    /\ CpTakesData(u, d) /\ d = "cp:cancel"
    /\ \E g \in gate(access_list, supabase, u, un, down) :
         LET e == [Event("cp_cancel_cb", "cp", u, un, g) EXCEPT !.data = d]
         IN
         /\ access_list' = g.store
         /\ UNCHANGED <<supabase, latest, counterparty_tags, adm_state>>
         /\ IF g.failed # "no"
            THEN /\ UNCHANGED <<user_data, cp_state>>
                 /\ ev' = e
            ELSE /\ user_data' = Cached(u, g)
                 /\ cp_state' = [cp_state EXCEPT ![u] = "CP_WAIT_NAME"]
                 /\ ev' = e
    /\ Chat(u)

\* cp_cancel_cb
CpCancelCb(u, un, down, d) ==
    /\ supabase
    /\ CpTakesData(u, d) /\ d = "cp:cancel"
    /\ \E g \in gate(access_list, supabase, u, un, down) :
         LET e == [Event("cp_cancel_cb", "cp", u, un, g) EXCEPT !.data = d]
         IN
         /\ access_list' = g.store
         /\ UNCHANGED <<supabase, latest, counterparty_tags, adm_state>>
         /\ IF g.failed # "no"
            THEN /\ UNCHANGED <<user_data, cp_state>>
                 /\ ev' = e
            ELSE /\ user_data' = Cached(u, g)
                 /\ cp_state' = [cp_state EXCEPT ![u] = IF g.allowed THEN "CP_WAIT_NAME" ELSE "END"]
                 /\ ev' = [e EXCEPT !.denied = ~g.allowed]
    /\ Chat(u)

---------------------------------------------------------------------------
(* Menu buttons and the BIN check *)

\* on_menu_button.  Its BTN_ADMIN branch never runs: adm_conv's entry point is
\* registered before this handler and takes that text.  The BTN_HELP branch
\* calls help_cmd, which passes the gate a second time.
OnMenuButton(u, un, down, t) ==
    /\ supabase
    /\ MenuTakesText(u, t)
    /\ \E g \in gate(access_list, supabase, u, un, down) :
         LET e == [Event("on_menu_button", "-", u, un, g) EXCEPT !.text = t]
         IN
         /\ UNCHANGED <<supabase, latest, counterparty_tags, cp_state, adm_state>>
         /\ IF g.failed # "no"
            THEN /\ access_list' = g.store
                 /\ user_data' = user_data
                 /\ ev' = e
            ELSE IF ~g.allowed
            THEN /\ access_list' = g.store
                 /\ user_data' = Cached(u, g)
                 /\ ev' = [e EXCEPT !.denied = TRUE]
            ELSE IF Strip(t) = BTN_BIN
            THEN /\ access_list' = g.store
                 /\ user_data' = [Cached(u, g) EXCEPT ![u].mode = MODE_BIN]
                 /\ ev' = e
            ELSE IF Strip(t) = BTN_HELP
            THEN \E h \in gate(g.store, supabase, u, un, down) :
                   /\ access_list' = h.store
                   /\ user_data' = IF h.failed # "no" THEN Cached(u, g)
                                   ELSE [user_data EXCEPT ![u].is_admin = h.is_admin]
                   /\ ev' = [e EXCEPT !.status = "help", !.failed = h.failed,
                                      !.raised = (h.failed # "no"),
                                      !.denied = (h.failed = "no" /\ ~h.allowed)]
            ELSE /\ access_list' = g.store
                 /\ user_data' = Cached(u, g)
                 /\ ev' = e
    /\ Chat(u)

\* Mutant of get_card_scheme: the 2221..2720 range of MasterCard is missing.
get_card_scheme_without_2_series(bin_code) ==
    IF ~IsDigit(bin_code) \/ Len(bin_code) < 6 THEN "Unknown"
    ELSE LET first_digit == ToInt(SubSeq(bin_code, 1, 1))
             first_two   == ToInt(SubSeq(bin_code, 1, 2))
             first_four  == ToInt(SubSeq(bin_code, 1, 4))
         IN  IF first_digit = 4 THEN "Visa"
             ELSE IF 51 <= first_two /\ first_two <= 55 THEN "MasterCard"
             ELSE IF 2200 <= first_four /\ first_four <= 2204 THEN "MIR"
             ELSE "Unknown"

\* get_card_scheme
get_card_scheme(bin_code) ==
    IF ~IsDigit(bin_code) \/ Len(bin_code) < 6 THEN "Unknown"
    ELSE LET first_digit == ToInt(SubSeq(bin_code, 1, 1))
             first_two   == ToInt(SubSeq(bin_code, 1, 2))
             first_four  == ToInt(SubSeq(bin_code, 1, 4))
         IN  IF first_digit = 4 THEN "Visa"
             ELSE IF (51 <= first_two /\ first_two <= 55)
                     \/ (2221 <= first_four /\ first_four <= 2720) THEN "MasterCard"
             ELSE IF 2200 <= first_four /\ first_four <= 2204 THEN "MIR"
             ELSE "Unknown"

\* bin_db as load_db left it: a sample of the archive.  load_db stores
\* "Unknown" for a missing or empty field.
bin_db ==
    [b \in {<<"4", "1", "1", "1", "1", "1">>, <<"2", "2", "0", "0", "0", "0">>} |->
        IF b = <<"4", "1", "1", "1", "1", "1">>
        THEN [Brand |-> "Brand A", Issuer |-> "Bank A", CountryName |-> "Land A"]
        ELSE [Brand |-> "Unknown", Issuer |-> "Bank B", CountryName |-> "Unknown"]]

\* What the GET to lookup.binlist.net may come to: a 200 with both names, a 200
\* without them, another status, or an exception (timeout, network, bad JSON).
RemoteOutcomes ==
    { [status |-> "200", bank |-> "Bank R", country |-> "Land R"],
      [status |-> "200", bank |-> "absent", country |-> "absent"],
      [status |-> "404", bank |-> "absent", country |-> "absent"],
      [status |-> "raise", bank |-> "absent", country |-> "absent"] }

\* Mutant of the lookup: the remote service is asked whether or not the table
\* has the BIN, and its names win over the table's.
BinLookup_remote_first(bin_code, remote) ==
    LET local == IF bin_code \in DOMAIN bin_db
                 THEN [issuer |-> bin_db[bin_code].Issuer,
                       country |-> bin_db[bin_code].CountryName]
                 ELSE [issuer |-> "Unknown", country |-> "Unknown"]
    IN  IF remote.status = "200"
        THEN [issuer  |-> IF remote.bank = "absent" THEN local.issuer ELSE remote.bank,
              country |-> IF remote.country = "absent" THEN local.country ELSE remote.country,
              calls |-> 1]
        ELSE [issuer |-> local.issuer, country |-> local.country, calls |-> 1]

\* Mutant of the lookup: a GET that did not answer 200 is repeated once.
BinLookup_retries(bin_code, remote) ==
    IF bin_code \in DOMAIN bin_db
    THEN [issuer |-> bin_db[bin_code].Issuer, country |-> bin_db[bin_code].CountryName,
          calls |-> 0]
    ELSE IF remote.status = "200"
    THEN [issuer  |-> IF remote.bank = "absent" THEN "Unknown" ELSE remote.bank,
          country |-> IF remote.country = "absent" THEN "Unknown" ELSE remote.country,
          calls |-> 1]
    ELSE [issuer |-> "Unknown", country |-> "Unknown", calls |-> 2]

\* The lookup part of check_card_message: (issuer, country, remote calls made).
BinLookup(bin_code, remote) ==
    IF bin_code \in DOMAIN bin_db
    THEN [issuer |-> bin_db[bin_code].Issuer, country |-> bin_db[bin_code].CountryName,
          calls |-> 0]
    ELSE IF remote.status = "200"
    THEN [issuer  |-> IF remote.bank = "absent" THEN "Unknown" ELSE remote.bank,
          country |-> IF remote.country = "absent" THEN "Unknown" ELSE remote.country,
          calls |-> 1]
    ELSE [issuer |-> "Unknown", country |-> "Unknown", calls |-> 1]

BinLen == 6

\* text[:6] if text.isdigit() else ""
BinCode(text) ==
    IF IsDigit(text) THEN SubSeq(text, 1, IF Len(text) < BinLen THEN Len(text) ELSE BinLen)
    ELSE NoText

\* check_card_message
CheckCardMessage(u, un, down, t, remote) ==
    /\ supabase
    /\ BinTakesText(u, t)
    /\ \E g \in gate(access_list, supabase, u, un, down) :
         LET e        == [Event("check_card_message", "-", u, un, g) EXCEPT !.text = t]
             text     == Strip(t)
             bin_code == BinCode(text)
         IN
         /\ access_list' = g.store
         /\ UNCHANGED <<supabase, latest, counterparty_tags, cp_state, adm_state>>
         /\ IF g.failed # "no"
            THEN /\ user_data' = user_data
                 /\ ev' = e
            ELSE IF ~g.allowed
            THEN /\ user_data' = Cached(u, g)
                 /\ ev' = [e EXCEPT !.denied = TRUE]
            ELSE IF user_data[u].mode # MODE_BIN
            THEN /\ user_data' = Cached(u, g)
                 /\ ev' = [e EXCEPT !.status = "not_bin_mode"]
            ELSE IF bin_code = NoText \/ Len(bin_code) < BinLen
            THEN /\ user_data' = Cached(u, g)
                 /\ ev' = [e EXCEPT !.status = "need_6_digits"]
            ELSE /\ user_data' = Cached(u, g)
                 /\ ev' = [e EXCEPT !.classified = TRUE,
                                    !.status = get_card_scheme(bin_code),
                                    !.bin = BinLookup(bin_code, remote),
                                    !.remote = IF bin_code \in DOMAIN bin_db THEN "-"
                                               ELSE remote.status]
    /\ Chat(u)

---------------------------------------------------------------------------
(* Initial states.  The access_list starts as an operator may have left it   *)
(* (rows with role admin are never written by the bot itself); no tag, no    *)
(* session.  run_bot returns before serving when init_supabase fails, so no  *)
(* handler runs without a client.                                            *)

Blank(rows) ==
    /\ supabase \in BOOLEAN
    /\ access_list = rows
    /\ counterparty_tags = <<>>
    /\ user_data = [u \in UserIds |-> NewUserData]
    /\ cp_state = [u \in UserIds |-> "END"]
    /\ adm_state = [u \in UserIds |-> "END"]
    /\ latest = [u \in UserIds |-> [name |-> NoText, color |-> "-", comment |-> NoText]]
    /\ ev = NoEvent
    /\ msgs = [u \in UserIds |-> NoChat]

---------------------------------------------------------------------------
(* Spec: every handler, for one caller.  User 2 holds an active row with     *)
(* role admin (written by the operator of the store; the bot itself only     *)
(* writes role user), so that every workflow is open to them until they      *)
(* grant to or revoke their own handle.  The free text serves as counterparty *)
(* name, comment or grant/revoke target according to the state it arrives    *)
(* in; button labels and BIN texts are sent when no workflow is waiting for  *)
(* a text.                                                                   *)

Operators  == UserIds \ ADMIN_IDS
Usernames  == {<<"B", "o">>}
FreeTexts  == {<<" ", "B", "o">>}
BinTexts   == {<<"4", "1", "1", "1", "1", "1">>, <<"4", "1">>}
Buttons    == {BTN_BIN, BTN_CP, BTN_ADMIN, BTN_HELP}
Datas      == {"cp:add", "cp:color:red", "cp:cancel", "cp:confirm:yes", "cp:confirm:no",
               "adm:grant", "adm:revoke", "menu:back"}
Remotes    == {r \in RemoteOutcomes : r.status = "raise"}

Init == Blank(<<Row(2, <<"b", "o">>, "admin", TRUE)>>)

Next ==
    \E u \in Operators, un \in Usernames, down \in Down :
       \/ HelpCmd(u, un, down)
       \/ Start(u, un, down)
       \/ CpEntry(u, un, down, BTN_CP)
       \/ AdminEntry(u, un, down, BTN_ADMIN)
       \/ \E t \in FreeTexts :
            \/ CpReceiveName(u, un, down, t)
            \/ CpComment(u, un, down, t)
            \/ AdminTarget(u, un, down, t)
       \/ \E t \in Buttons : OnMenuButton(u, un, down, t)
       \/ \E t \in BinTexts, r \in Remotes : CheckCardMessage(u, un, down, t, r)
       \/ \E d \in Datas :
            \/ CpAddTagCb(u, un, down, d)
            \/ CpColorCb(u, un, down, d)
            \/ CpConfirmCb(u, un, down, d)
            \/ CpCancelCb(u, un, down, d)
            \/ AdminActionCb(u, un, down, d)
            \/ BackToMenuCb(u, un, down, d)
            \/ Unhandled(u, un, d)

Spec == Init /\ [][Next]_vars

---------------------------------------------------------------------------
(* SpecAccess: the access workflow and the gate, with callers that change    *)
(* handle between updates and targets given as handle or as numeric id.      *)

AccUsernames == {NoText, <<"B", "o">>, <<"b", "_">>}
AccTargets   == {<<"@", "B", "o">>, <<"2">>, <<"@">>}
AccData      == {"adm:grant", "adm:revoke"}
AccDown      == {"no", "resolver"}

InitAccess == Blank(<<>>)

NextAccess ==
    \E u \in UserIds, un \in AccUsernames, down \in AccDown :
       \/ Start(u, un, down)
       \/ AdminEntry(u, un, down, BTN_ADMIN)
       \/ \E d \in AccData : AdminActionCb(u, un, down, d)
       \/ \E t \in AccTargets : AdminTarget(u, un, down, t)

SpecAccess == InitAccess /\ [][NextAccess]_vars

---------------------------------------------------------------------------
(* SpecAdmin: the access workflow when user 2 holds a row with role admin    *)
(* (written by the operator of the store) and user 1 can take it away.       *)

AdmUsernames == {NoText, <<"B", "o">>}
AdmTargets   == {<<"2">>}
AdmData      == {"adm:grant", "adm:revoke", "menu:back"}

InitAdmin == Blank(<<Row(2, <<"b", "o">>, "admin", TRUE)>>)

NextAdmin ==
    \E u \in UserIds, un \in AdmUsernames :
       \/ AdminEntry(u, un, "no", BTN_ADMIN)
       \/ \E d \in AdmData :
            \/ AdminActionCb(u, un, "no", d)
            \/ BackToMenuCb(u, un, "no", d)
       \/ \E t \in AdmTargets : AdminTarget(u, un, "no", t)

SpecAdmin == InitAdmin /\ [][NextAdmin]_vars

---------------------------------------------------------------------------
(* SpecTag: the tagging workflow of user 2, with two names, two colours, a   *)
(* comment that is long enough and one that is not, and a store that may     *)
(* fail at the handler's own call.                                           *)

TagTexts == {<<" ", "B", "o">>, <<"2">>}
TagData  == {"cp:add", "cp:color:red", "cp:color:green", "cp:cancel",
             "cp:confirm:yes", "cp:confirm:no", "menu:back"}
TagDown  == {"no", "op"}

InitTag == Blank(<<Row(2, <<"b", "o">>, "user", TRUE)>>)

NextTag ==
    \E u \in Operators, un \in Usernames, down \in TagDown :
       \/ CpEntry(u, un, down, BTN_CP)
       \/ \E t \in TagTexts :
            \/ CpReceiveName(u, un, down, t)
            \/ CpComment(u, un, down, t)
       \/ \E d \in TagData :
            \/ CpAddTagCb(u, un, down, d)
            \/ CpColorCb(u, un, down, d)
            \/ CpConfirmCb(u, un, down, d)
            \/ CpCancelCb(u, un, down, d)
            \/ BackToMenuCb(u, un, down, d)

SpecTag == InitTag /\ [][NextTag]_vars

---------------------------------------------------------------------------
(* SpecCard: the card of a counterparty whose tags were saved by earlier     *)
(* sessions.  The table starts with up to MaxCard tags of the counterparty   *)
(* "bo", of any colours; the caller enters the tagging workflow and looks    *)
(* the counterparty up.                                                      *)

MaxCard == 4

CardColors == {"red", "yellow", "green"}
CardTexts  == {<<" ", "B", "o">>, <<"2">>}

\* The tables of n tags of "bo" with colours from CardColors
CardStores(n) ==
    {[i \in 1..n |-> Tag(<<"B", "o">>, f[i], <<"o", "k">>, 2, <<"B", "o">>)]
        : f \in [1..n -> CardColors]}

InitCard ==
    /\ supabase \in BOOLEAN
    /\ access_list = <<Row(2, <<"b", "o">>, "user", TRUE)>>
    /\ counterparty_tags \in UNION {CardStores(n) : n \in 0..MaxCard}
    /\ user_data = [u \in UserIds |-> NewUserData]
    /\ cp_state = [u \in UserIds |-> "END"]
    /\ adm_state = [u \in UserIds |-> "END"]
    /\ latest = [u \in UserIds |-> [name |-> NoText, color |-> "-", comment |-> NoText]]
    /\ ev = NoEvent
    /\ msgs = [u \in UserIds |-> NoChat]

NextCard ==
    \E u \in Operators, un \in Usernames :
       \/ CpEntry(u, un, "no", BTN_CP)
       \/ \E t \in CardTexts : CpReceiveName(u, un, "no", t)

SpecCard == InitCard /\ [][NextCard]_vars

---------------------------------------------------------------------------
(* SpecBin: the BIN check.  One caller with an active row sends BINs at and  *)
(* around the ends of every range of get_card_scheme, two of them in the     *)
(* table, and texts that are no BIN; the remote service answers in every     *)
(* way.  The counterparty button takes the session out of BIN mode; in      *)
(* CP_WAIT_COLOR a text reaches check_card_message again; /start, the BIN    *)
(* button and the back button put the session back into BIN mode.            *)

BinSamples ==
    { <<"4", "1", "1", "1", "1", "1">>, <<"2", "2", "0", "0", "0", "0">>,
      <<"4", "2", "4", "2", "4", "2">>, <<"3", "9", "9", "9", "9", "9">>,
      <<"5", "0", "9", "9", "9", "9">>, <<"5", "1", "0", "0", "0", "0">>,
      <<"5", "5", "9", "9", "9", "9">>, <<"5", "6", "0", "0", "0", "0">>,
      <<"2", "1", "9", "9", "9", "9">>, <<"2", "2", "0", "4", "9", "9">>,
      <<"2", "2", "0", "5", "0", "0">>, <<"2", "2", "2", "0", "9", "9">>,
      <<"2", "2", "2", "1", "0", "0">>, <<"2", "7", "2", "0", "9", "9">>,
      <<"2", "7", "2", "1", "0", "0">>, <<"0", "4", "1", "1", "1", "1">> }

BinInputs ==
    BinSamples \cup { <<"4", "1">>, <<" ", "4", "1", "1", "1", "1", "1", "9">>,
                      <<"4", "1", "1", "1", "1", "x">> }

BinDown == {"no", "resolver"}

InitBin == Blank(<<Row(2, <<"b", "o">>, "user", TRUE)>>)

NextBin ==
    \E u \in Operators, un \in Usernames, down \in BinDown :
       \/ Start(u, un, down)
       \/ CpEntry(u, un, down, BTN_CP)
       \/ CpAddTagCb(u, un, down, "cp:add")
       \/ BackToMenuCb(u, un, down, "menu:back")
       \/ OnMenuButton(u, un, down, BTN_BIN)
       \/ \E t \in BinInputs, r \in RemoteOutcomes : CheckCardMessage(u, un, down, t, r)

SpecBin == InitBin /\ [][NextBin]_vars

---------------------------------------------------------------------------
(* SpecRevoke: grants and revokes of handles that contain an underscore, a   *)
(* character Telegram allows in usernames.  The static admin, who has no     *)
(* handle, runs the admin workflow; user 2 sends /start with or without      *)
(* their handle.                                                             *)

RevUsernames == {NoText, <<"B", "o">>}
RevTargets   == {<<"@", "B", "o">>, <<"@", "b", "_">>, <<"2">>}

InitRevoke == Blank(<<>>)

NextRevoke ==
    \/ \E un \in RevUsernames : Start(2, un, "no")
    \/ AdminEntry(1, NoText, "no", BTN_ADMIN)
    \/ \E d \in AccData : AdminActionCb(1, NoText, "no", d)
    \/ \E t \in RevTargets : AdminTarget(1, NoText, "no", t)

SpecRevoke == InitRevoke /\ [][NextRevoke]_vars

---------------------------------------------------------------------------
(* SpecMsg: the chat of one allowed caller is observed, message by message,  *)
(* with the deletions Telegram refuses and the edits it rejects.             *)

MsgTexts == {<<"4", "1", "1", "1", "1", "1">>, <<"4", "1">>}
MsgNames == {<<" ", "B", "o">>}
MsgData  == {"cp:add", "menu:back"}
MsgRemote == {r \in RemoteOutcomes : r.status = "raise"}

InitMsg ==
    /\ supabase = TRUE
    /\ access_list = <<Row(2, <<"b", "o">>, "user", TRUE)>>
    /\ counterparty_tags = <<>>
    /\ user_data = [u \in UserIds |-> NewUserData]
    /\ cp_state = [u \in UserIds |-> "END"]
    /\ adm_state = [u \in UserIds |-> "END"]
    /\ latest = [u \in UserIds |-> [name |-> NoText, color |-> "-", comment |-> NoText]]
    /\ ev = NoEvent
    /\ msgs = [u \in UserIds |-> [NoChat EXCEPT !.observed = TRUE]]

NextMsg ==
    \E u \in Operators, un \in Usernames :
       \/ Start(u, un, "no")
       \/ CpEntry(u, un, "no", BTN_CP)
       \/ OnMenuButton(u, un, "no", BTN_BIN)
       \/ \E t \in MsgNames : CpReceiveName(u, un, "no", t)
       \/ \E t \in MsgTexts, r \in MsgRemote : CheckCardMessage(u, un, "no", t, r)
       \/ \E d \in MsgData :
            \/ CpAddTagCb(u, un, "no", d)
            \/ BackToMenuCb(u, un, "no", d)

SpecMsg == InitMsg /\ [][NextMsg]_vars

---------------------------------------------------------------------------
(* Properties of the access resolver (SpecAccess) *)

\* Caller ids a resolver call is asked about: the users of the model and one
\* id that never sent an update.
CallerIds == UserIds \cup {3}

\* The last update passed the gate and the handler ran no grant and no revoke.
GatePassed == ev.handler # "-" /\ ev.allowed /\ ~ev.raised /\ ev.op = "none"

\* C2: in every reachable state of access_list, also when a row with an
\* administrator's id is inactive or has role user, is_allowed_user answers
\* (True, True) for a caller whose id is in ADMIN_IDS, and it did so in the
\* last update handled.
C2_StaticAdminAlwaysAdmin ==
    /\ \A a \in ADMIN_IDS, un \in AccUsernames :
          is_allowed_user(access_list, supabase, a, un) = {Verdict(TRUE, TRUE)}
    /\ (ev.user \in ADMIN_IDS) => (ev.allowed /\ ev.is_admin)

C2_Witness ==
    /\ ev.user \in ADMIN_IDS /\ ev.handler = "start" /\ ev.allowed /\ ev.is_admin
    /\ \E i \in DOMAIN access_list :
          /\ access_list[i].telegram_id = ev.user
          /\ ~access_list[i].is_active
          /\ access_list[i].role = "user"

\* The last update was a revoke that the store executed.
RevokeDone == ev.handler = "admin_target" /\ ev.op = "revoke" /\ ev.status = "revoked"

\* The rows is_allowed_user may find for caller (c, un) all belong to the
\* rows the last revoke's target designates.
ResolvesToRevoked(c, un) ==
    LET found == QueryAccess(access_list, c, normalize_username(un))
    IN  found # {} /\ found \subseteq RevokeHits(access_list, ev.text)

SameHandle(a, b) == LowerStr(a) = LowerStr(b)

\* C4: for a caller outside ADMIN_IDS the resolver finds the row by
\* telegram_id first and, only if there is none and the caller has a handle,
\* by the handle compared case-insensitively; it answers (False, False) when
\* no row is found or the found row is inactive, else (True, role = admin) of
\* the found row.  Stated of each update against the store before it.
C4_LookupByIdThenHandle ==
    [][ (ev'.handler # "-" /\ ev'.failed # "resolver" /\ ev'.user \notin ADMIN_IDS) =>
          LET h        == normalize_username(ev'.uname)
              byId     == {i \in DOMAIN access_list :
                              access_list[i].telegram_id = ev'.user}
              byHandle == {i \in DOMAIN access_list :
                              /\ h # NoText
                              /\ access_list[i].username # NoText
                              /\ SameHandle(access_list[i].username, h)}
              found    == IF byId # {} THEN byId ELSE byHandle
          IN  IF found = {} THEN ~ev'.allowed /\ ~ev'.is_admin
              ELSE \E i \in found :
                      /\ ev'.allowed = access_list[i].is_active
                      /\ ev'.is_admin = (access_list[i].is_active
                                           /\ access_list[i].role = "admin")
      ]_vars

\* After the update, is_allowed_user allows a caller with id n whatever handle
\* they present.
AllowedById(store, n) ==
    \A un \in AccUsernames : \A v \in is_allowed_user(store, supabase, n, un) : v.allowed

\* C5 as stated: if an active row has handle h and no telegram_id, and a caller
\* presenting handle h and id n passes the gate, the row's telegram_id becomes
\* n and a later resolver call by id n is allowed.
C5_ConvergenceAsStated ==
    [][ \A i \in DOMAIN access_list :
          (/\ GatePassed'
           /\ access_list[i].is_active
           /\ access_list[i].telegram_id = NoId
           /\ access_list[i].username # NoText
           /\ access_list[i].username = normalize_username(ev'.uname))
          => /\ access_list'[i].telegram_id = ev'.user
             /\ AllowedById(access_list', ev'.user)
      ]_vars

\* C5 amended: the same, when the resolver can match the caller to that row
\* only: no row has telegram_id n and the row is the only one the handle
\* filter returns for h.
C5_Convergence ==
    [][ \A i \in DOMAIN access_list :
          (/\ GatePassed'
           /\ access_list[i].is_active
           /\ access_list[i].telegram_id = NoId
           /\ RowsById(access_list, ev'.user) = {}
           /\ RowsByUsername(access_list, normalize_username(ev'.uname)) = {i})
          => /\ access_list'[i].telegram_id = ev'.user
             /\ AllowedById(access_list', ev'.user)
      ]_vars

C5_Witness ==
    /\ GatePassed /\ ev.reconciled = "handle" /\ ev.user \notin ADMIN_IDS
    /\ \E i \in DOMAIN access_list :
          /\ access_list[i].telegram_id = ev.user
          /\ access_list[i].username = normalize_username(ev.uname)
    /\ AllowedById(access_list, ev.user)

\* C6: when a store query fails during the resolver call for a caller outside
\* ADMIN_IDS, the caller is denied as if no row were found and no exception
\* leaves the handler.
C6_FailClosed ==
    (ev.failed = "resolver" /\ ev.user \notin ADMIN_IDS)
       => (~ev.raised /\ ~ev.allowed /\ ev.denied)

---------------------------------------------------------------------------
(* Properties of the gate in the handlers (Spec) *)

\* The step is an update whose handler was answered allowed = False by its
\* first is_allowed_user call.
DeniedStep == ev'.handler # "-" /\ ~ev'.raised /\ ~ev'.allowed

\* The step wrote no tag and no access row, classified no BIN, looked up no
\* counterparty, and left the caller's session data but the cached is_admin.
NoEffect ==
    /\ counterparty_tags' = counterparty_tags
    /\ access_list' = access_list
    /\ ev'.op = "none" /\ ~ev'.classified /\ ~ev'.looked
    /\ latest' = latest
    /\ user_data' = [user_data EXCEPT ![ev'.user].is_admin = FALSE]

\* C1 as stated: an update from a caller whom the resolver does not allow
\* inserts no tag, writes no access row, classifies no BIN, looks up no
\* counterparty, and leaves the caller with no active workflow.
C1_DeniedLeavesNoWorkflow ==
    [][ DeniedStep =>
          /\ NoEffect
          /\ cp_state'[ev'.user] = "END"
          /\ adm_state'[ev'.user] = "END"
      ]_vars

\* C1 amended: such an update has no effect, is answered by deny(), and ends
\* the workflow whose handler took it: a tagging step ends the tagging
\* workflow, an admin step the admin workflow, and an update handled outside
\* the workflows (start, help, menu button, BIN check) leaves both as they are.
C1_DeniedDoesNothing ==
    [][ DeniedStep =>
          /\ NoEffect
          /\ ev'.denied
          /\ cp_state' = IF ev'.conv = "cp" THEN [cp_state EXCEPT ![ev'.user] = "END"]
                         ELSE cp_state
          /\ adm_state' = IF ev'.conv = "adm" THEN [adm_state EXCEPT ![ev'.user] = "END"]
                          ELSE adm_state
      ]_vars

C1_Witness ==
    /\ ev.handler = "cp_confirm_cb" /\ ev.data = "cp:confirm:yes"
    /\ ~ev.allowed /\ ~ev.raised /\ ev.denied
    /\ cp_state[ev.user] = "END"
    /\ adm_state[ev.user] = "ADM_WAIT_ACTION"
    /\ counterparty_tags = <<>>

\* C8: from every state of the tagging and of the admin workflow, /start ends
\* the workflow: once start has handled an update the caller has no active
\* workflow, so no following text is taken as a name, a comment or a target.
C8_StartEndsWorkflows ==
    (ev.handler = "start")
       => (cp_state[ev.user] = "END" /\ adm_state[ev.user] = "END")

---------------------------------------------------------------------------
(* Properties of the admin workflow (SpecAdmin) *)

\* The step is an update of the admin workflow for which is_allowed_user
\* answered is_admin = False.
NonAdminStep == ev'.conv = "adm" /\ ~ev'.raised /\ ~ev'.is_admin

\* Row `new` is row `old` after upsert_user_identity for caller (u, un): the
\* handle of the caller's row by id, or the id of a row found by handle.
ReconciledRow(old, new, u, un) ==
    /\ new.role = old.role /\ new.is_active = old.is_active
    /\ \/ new = old
       \/ old.telegram_id = u /\ new = [old EXCEPT !.username = normalize_username(un)]
       \/ old.telegram_id # u /\ new = [old EXCEPT !.telegram_id = u]

\* After the step the caller is in ADM_WAIT_ACTION or ADM_WAIT_TARGET only if
\* is_allowed_user answered is_admin = True on this very update.
ProceedsOnlyAsAdmin ==
    (ev'.conv = "adm" /\ ~ev'.raised /\ adm_state'[ev'.user] # "END") => ev'.is_admin

\* C7 as stated: a step of the admin workflow proceeds only if the resolver
\* answers is_admin = True on that update, so a non-admin never enters
\* ADM_WAIT_ACTION; and the next update of a caller who lost the role or the
\* access after entering inserts and updates no access row and ends the
\* workflow for them.
C7_NonAdminWritesNothing ==
    [][ /\ ProceedsOnlyAsAdmin
        /\ (NonAdminStep /\ adm_state[ev'.user] # "END") =>
              /\ access_list' = access_list
              /\ adm_state'[ev'.user] = "END"
      ]_vars

\* C7 amended: the same, except that the update of a caller who is not an
\* admin any more may still change one row: it runs no grant and no revoke and
\* inserts no row, but the gate's reconciliation may rewrite the handle (or
\* set the id) of the caller's own row when the caller is still allowed.
C7_AdminRecheckedEachStep ==
    [][ /\ ProceedsOnlyAsAdmin
        /\ NonAdminStep =>
            /\ ev'.op = "none"
            /\ Len(access_list') = Len(access_list)
            /\ \A i \in DOMAIN access_list :
                  ReconciledRow(access_list[i], access_list'[i], ev'.user, ev'.uname)
            /\ \A i, j \in DOMAIN access_list :
                  (access_list'[i] # access_list[i] /\ access_list'[j] # access_list[j])
                     => i = j
            /\ adm_state'[ev'.user] = "END"
      ]_vars

C7_Witness ==
    /\ ev.handler = "admin_target" /\ ev.user \notin ADMIN_IDS
    /\ ev.allowed /\ ~ev.is_admin /\ ~ev.raised
    /\ ev.reconciled = "id" /\ ev.op = "none"
    /\ adm_state[ev.user] = "END"

---------------------------------------------------------------------------
(* Properties of the tagging workflow (SpecTag) *)

\* The colour a colour button stands for; "yellow" when none was chosen.
ChosenColor(d) ==
    CASE d = "cp:color:red" -> "red" [] d = "cp:color:green" -> "green" [] OTHER -> "yellow"

\* The step is a "yes" at CP_WAIT_CONFIRM from an allowed caller, with the
\* store reachable.
ConfirmYes ==
    /\ ev'.handler = "cp_confirm_cb" /\ ev'.data = "cp:confirm:yes"
    /\ ev'.allowed /\ ~ev'.raised

\* C9: a "yes" at CP_WAIT_CONFIRM from an allowed caller appends exactly one
\* tag: its counterparty is the trimmed, lower-cased name of the caller's last
\* lookup, its colour the one last chosen, its comment the trimmed text last
\* accepted, its author id the caller's; the workflow is then in CP_WAIT_NAME.
C9_YesAppendsTheTag ==
    [][ ConfirmYes =>
          LET u == ev'.user
              n == Len(counterparty_tags)
          IN  /\ Len(counterparty_tags') = n + 1
              /\ SubSeq(counterparty_tags', 1, n) = counterparty_tags
              /\ counterparty_tags'[n + 1].counterparty = LowerStr(Strip(latest[u].name))
              /\ counterparty_tags'[n + 1].color = ChosenColor(latest[u].color)
              /\ counterparty_tags'[n + 1].comment = Strip(latest[u].comment)
              /\ counterparty_tags'[n + 1].created_by_telegram_id = u
              /\ cp_state'[u] = "CP_WAIT_NAME"
      ]_vars

C9_Witness ==
    /\ ev.handler = "cp_confirm_cb" /\ ev.op = "save" /\ ev.allowed
    /\ Len(counterparty_tags) = 2
    /\ counterparty_tags[1].counterparty # counterparty_tags[2].counterparty
    /\ counterparty_tags[1].color # counterparty_tags[2].color
    /\ counterparty_tags[2].counterparty = <<"b", "o">>
    /\ cp_state[ev.user] = "CP_WAIT_NAME"

\* C10: a "no" at CP_WAIT_CONFIRM leaves the counterparty_tags table as it
\* was, so that a later fetch of the counterparty returns what it returned
\* before, and the workflow of an allowed caller is then in CP_WAIT_NAME.
C10_NoLeavesTagsUnchanged ==
    [][ (ev'.handler = "cp_confirm_cb" /\ ev'.data = "cp:confirm:no") =>
          /\ counterparty_tags' = counterparty_tags
          /\ fetch_counterparty_tags(counterparty_tags', supabase,
                                     user_data[ev'.user].cp_name, FetchLimit)
               = fetch_counterparty_tags(counterparty_tags, supabase,
                                         latest[ev'.user].name, FetchLimit)
          /\ (ev'.allowed /\ ~ev'.raised) => cp_state'[ev'.user] = "CP_WAIT_NAME"
      ]_vars

C10_Witness ==
    /\ ev.handler = "cp_confirm_cb" /\ ev.data = "cp:confirm:no"
    /\ ev.allowed /\ ~ev.raised
    /\ cp_state[ev.user] = "CP_WAIT_NAME"
    /\ \E i \in DOMAIN counterparty_tags :
          counterparty_tags[i].counterparty = LowerStr(Strip(latest[ev.user].name))

\* A text sent to cp_comment by an allowed caller, with the store reachable.
CommentStep ==
    ev'.handler = "cp_comment" /\ ev'.allowed /\ ~ev'.raised

\* C11: a comment whose trimmed length is below 2 is rejected: the workflow
\* stays in CP_WAIT_COMMENT and the pending comment is not stored; a comment
\* whose trimmed length is 2 or more is stored trimmed and the workflow moves
\* to CP_WAIT_CONFIRM.
C11_ShortCommentRejected ==
    [][ CommentStep =>
          LET u == ev'.user
          IN  IF Len(Strip(ev'.text)) < 2
              THEN /\ cp_state'[u] = "CP_WAIT_COMMENT"
                   /\ user_data'[u].cp_comment = user_data[u].cp_comment
              ELSE /\ cp_state'[u] = "CP_WAIT_CONFIRM"
                   /\ user_data'[u].cp_comment = Strip(ev'.text)
      ]_vars

\* A one-character comment was just rejected, after a comment of trimmed
\* length 2 had been accepted earlier: the earlier one is still the pending one.
C11_Witness ==
    /\ ev.handler = "cp_comment" /\ ev.status = "too_short" /\ ev.allowed
    /\ Len(Strip(ev.text)) = 1
    /\ cp_state[ev.user] = "CP_WAIT_COMMENT"
    /\ user_data[ev.user].cp_comment = <<"B", "o">>

---------------------------------------------------------------------------
(* Properties of the dispatch of updates to the two workflows (Spec) *)

\* The update of the step is a text that is no menu button.
FreeTextStep ==
    ev'.text # NoText /\ ev'.text \notin {BTN_BIN, BTN_CP, BTN_ADMIN, BTN_HELP}

\* The workflow the caller is in: the conversation whose handler answered
\* their previous update, while it has not ended.
InTagging(u) ==
    ev.user = u /\ ev.conv = "cp" /\ ~ev.raised /\ cp_state[u] # "END"

InAdmin(u) ==
    ev.user = u /\ ev.conv = "adm" /\ ~ev.raised /\ adm_state[u] # "END"

\* The update of the step is of a kind the state of the workflow the caller
\* is in does not expect: a free text in CP_WAIT_COLOR, CP_WAIT_CONFIRM or
\* ADM_WAIT_ACTION, a callback query in CP_WAIT_COMMENT, or a callback query
\* no handler of the caller's conversation states accepts.
Mismatched ==
    LET u == ev'.user
    IN  /\ u \in UserIds
        /\ \/ /\ FreeTextStep
              /\ \/ InTagging(u) /\ cp_state[u] \in {"CP_WAIT_COLOR", "CP_WAIT_CONFIRM"}
                 \/ InAdmin(u) /\ adm_state[u] = "ADM_WAIT_ACTION"
           \/ /\ ev'.data # "-"
              /\ \/ InTagging(u) /\ cp_state[u] = "CP_WAIT_COMMENT"
                 \/ ~CpTakesData(u, ev'.data) /\ ~AdmTakesData(u, ev'.data)

\* Both workflow states of the caller, the pending name, colour, comment and
\* admin action, the tags and every access row's role and is_active stay.
WorkflowUntouched ==
    LET u == ev'.user
    IN  /\ cp_state'[u] = cp_state[u] /\ adm_state'[u] = adm_state[u]
        /\ user_data'[u].cp_name = user_data[u].cp_name
        /\ user_data'[u].cp_color = user_data[u].cp_color
        /\ user_data'[u].cp_comment = user_data[u].cp_comment
        /\ user_data'[u].adm_action = user_data[u].adm_action
        /\ counterparty_tags' = counterparty_tags
        /\ Len(access_list') = Len(access_list)
        /\ \A i \in DOMAIN access_list :
              /\ access_list'[i].role = access_list[i].role
              /\ access_list'[i].is_active = access_list[i].is_active

\* C12: an update whose kind does not match what the caller's workflow state
\* expects is a no-op for the workflow: with the store reachable, the workflow
\* state, the pending fields, the tags and the access rows' roles and activity
\* are unchanged and no exception leaves a handler.
C12_MismatchedEventIsNoOp ==
    [][ (Mismatched /\ ev'.failed = "no") => (WorkflowUntouched /\ ~ev'.raised) ]_vars

\* The tagging conversation of some caller enters state `to` in the step.
Enters(u, to) == cp_state'[u] = to /\ cp_state[u] # to

\* C13: the counterparty_tags table is append-only and changes only through
\* the tagging workflow: it changes only by one tag appended on a "yes" at
\* CP_WAIT_CONFIRM, and CP_WAIT_CONFIRM is entered only from CP_WAIT_COMMENT by
\* an accepted comment, CP_WAIT_COMMENT only from CP_WAIT_COLOR by a colour
\* button, CP_WAIT_COLOR only from CP_WAIT_NAME by the add-tag button, so that
\* the save is preceded, since the caller's last CP_WAIT_NAME, by these three
\* in that order; no tag is modified or removed, and a lookup never writes.
C13_TagsAppendOnly ==
    [][ /\ (counterparty_tags' # counterparty_tags) =>
              /\ ev'.handler = "cp_confirm_cb" /\ ev'.data = "cp:confirm:yes"
              /\ cp_state[ev'.user] = "CP_WAIT_CONFIRM"
              /\ Len(counterparty_tags') = Len(counterparty_tags) + 1
              /\ SubSeq(counterparty_tags', 1, Len(counterparty_tags)) = counterparty_tags
        /\ \A u \in UserIds :
              /\ Enters(u, "CP_WAIT_CONFIRM") =>
                    /\ cp_state[u] = "CP_WAIT_COMMENT"
                    /\ ev'.user = u /\ ev'.handler = "cp_comment"
                    /\ Len(Strip(ev'.text)) >= 2
              /\ Enters(u, "CP_WAIT_COMMENT") =>
                    /\ cp_state[u] = "CP_WAIT_COLOR"
                    /\ ev'.user = u /\ ev'.handler = "cp_color_cb"
              /\ Enters(u, "CP_WAIT_COLOR") =>
                    /\ cp_state[u] = "CP_WAIT_NAME"
                    /\ ev'.user = u /\ ev'.handler = "cp_add_tag_cb"
        /\ (ev'.handler = "cp_receive_name") => counterparty_tags' = counterparty_tags
      ]_vars

\* Two tags were saved, and the card of the second was then looked up again.
C13_Witness ==
    /\ Len(counterparty_tags) = 2
    /\ ev.handler = "cp_receive_name" /\ ev.looked
    /\ LowerStr(Strip(ev.text)) = counterparty_tags[2].counterparty

---------------------------------------------------------------------------
(* Properties of the access rows (SpecAccess) *)

\* C14: every row of access_list has a telegram_id or a username, in every
\* reachable state: after the reconciliation of a caller without a handle
\* (which clears the username of the row found by id) and after a grant by
\* handle onto a row that has an id (which clears the id) as well.
C14_RowHasAnIdentity ==
    \A i \in DOMAIN access_list :
        access_list[i].telegram_id # NoId \/ access_list[i].username # NoText

\* A caller without a handle was just reconciled by id, which left their row
\* with an id and no username, next to a row granted by handle, without an id.
C14_Witness ==
    /\ ev.reconciled = "id" /\ ev.uname = NoText /\ ~ev.raised
    /\ \E i \in DOMAIN access_list :
          /\ access_list[i].telegram_id = ev.user
          /\ access_list[i].username = NoText
    /\ \E j \in DOMAIN access_list :
          access_list[j].telegram_id = NoId /\ access_list[j].username # NoText

---------------------------------------------------------------------------
(* Properties of the stored tags (SpecTag) *)

\* C15: in every reachable state every stored tag has a colour among red,
\* yellow and green, a comment of trimmed length at least 2 and a non-empty,
\* lower-cased counterparty, whatever callbacks and texts led to the save
\* (the add-tag button pressed in CP_WAIT_NAME before any name was looked up
\* included).
C15_StoredTagsWellFormed ==
    \A i \in DOMAIN counterparty_tags :
        LET tag == counterparty_tags[i]
        IN  /\ tag.color \in {"red", "yellow", "green"}
            /\ Len(Strip(tag.comment)) >= 2
            /\ tag.counterparty # NoText
            /\ tag.counterparty = LowerStr(tag.counterparty)

---------------------------------------------------------------------------
(* Properties of gate's writes (SpecAccess) *)

\* The step is a handler that wrote to access_list through gate only: it ran
\* no grant and no revoke.
GateOnlyStep ==
    ev'.handler # "-" /\ ev'.op \notin {"grant", "revoke"}

\* The rows the step changed.
ChangedRows ==
    {i \in DOMAIN access_list : access_list'[i] # access_list[i]}

\* C16: a gate call inserts no row and changes no row's is_active or role;
\* when it answers allowed = FALSE it changes no row at all, and when it
\* answers allowed = TRUE it changes at most one row: the username of a row
\* that has the caller's id, or the telegram_id of a row whose username the
\* caller's handle matches.
C16_GateWritesIdentityOnly ==
    [][ GateOnlyStep =>
          LET u == ev'.user
              h == normalize_username(ev'.uname)
          IN  /\ Len(access_list') = Len(access_list)
              /\ \A i \in DOMAIN access_list :
                    /\ access_list'[i].role = access_list[i].role
                    /\ access_list'[i].is_active = access_list[i].is_active
              /\ ~ev'.allowed => ChangedRows = {}
              /\ Cardinality(ChangedRows) <= 1
              /\ \A i \in ChangedRows :
                    \/ /\ access_list[i].telegram_id = u
                       /\ access_list'[i] = [access_list[i] EXCEPT !.username = h]
                    \/ /\ h # NoText /\ ILike(access_list[i].username, h)
                       /\ access_list'[i] = [access_list[i] EXCEPT !.telegram_id = u]
      ]_vars

\* A caller allowed by a row granted by handle has just passed gate, which
\* wrote their id into that row.
C16_Witness ==
    /\ ev.handler # "-" /\ ev.op = "none" /\ ev.allowed /\ ~ev.raised
    /\ ev.reconciled = "handle" /\ ev.user \notin ADMIN_IDS
    /\ \E i \in DOMAIN access_list :
          /\ access_list[i].telegram_id = ev.user
          /\ access_list[i].username = normalize_username(ev.uname)

---------------------------------------------------------------------------
(* Properties of the card (SpecCard) *)

\* The tags the last lookup fetched.
Fetched ==
    fetch_counterparty_tags(counterparty_tags, supabase, ev.text, FetchLimit)

\* How many of the fetched tags have colour c.
Marks(c) == Cardinality({i \in DOMAIN Fetched : Fetched[i].color = c})

\* Severity: red over yellow over green.
MoreSevere(a, b) ==
    \/ a = "red" /\ b \in {"yellow", "green"}
    \/ a = "yellow" /\ b = "green"

\* C17: for every non-empty list of fetched tags the dominant colour of the
\* card is a colour of the highest count among red, yellow and green over that
\* list, and among the colours of that count the most severe one (red over
\* yellow over green).
C17_DominantColor ==
    (ev.handler = "cp_receive_name" /\ ev.looked /\ ~ev.raised /\ Fetched # <<>>) =>
        /\ ev.card.dominant \in CardColors
        /\ \A c \in CardColors :
              /\ Marks(c) <= Marks(ev.card.dominant)
              /\ (Marks(c) = Marks(ev.card.dominant) /\ c # ev.card.dominant)
                    => MoreSevere(ev.card.dominant, c)

\* The card of two red and two yellow tags was rendered, and it is red.
C17_Witness ==
    /\ ev.handler = "cp_receive_name" /\ ev.looked /\ ~ev.raised
    /\ Marks("red") = 2 /\ Marks("yellow") = 2 /\ Marks("green") = 0
    /\ ev.card.dominant = "red"

---------------------------------------------------------------------------
(* Properties of the BIN check (SpecBin) *)

\* The last update was a text check_card_message classified.
Classified ==
    ev.handler = "check_card_message" /\ ev.classified

\* The six digits the classification was made of.
Prefix == SubSeq(Strip(ev.text), 1, 6)

\* C18: for a six-digit prefix the table has, the classification returns the
\* table's issuer and country and makes no call to the remote service.
C18_TableHitIsLocal ==
    (Classified /\ Prefix \in DOMAIN bin_db) =>
        /\ ev.bin.issuer = bin_db[Prefix].Issuer
        /\ ev.bin.country = bin_db[Prefix].CountryName
        /\ ev.bin.calls = 0

\* A BIN of the table was classified from a text of more than six digits.
C18_Witness ==
    /\ Classified /\ Prefix \in DOMAIN bin_db
    /\ Len(Strip(ev.text)) > 6
    /\ ev.bin.issuer = "Bank A" /\ ev.bin.calls = 0

\* The number the six digits of the prefix write.
PrefixNumber == ToInt(Prefix)

\* The scheme the numeric ranges give to a six-digit number.
SchemeByRanges(n) ==
    IF n \in 400000..499999 THEN "Visa"
    ELSE IF n \in 510000..559999 \/ n \in 222100..272099 THEN "MasterCard"
    ELSE IF n \in 220000..220499 THEN "MIR"
    ELSE "Unknown"

\* C19: for a six-digit prefix the table does not have, the classification
\* makes exactly one remote call; when the call raised (timeout, error) or
\* answered another status than 200, issuer and country are "Unknown", the
\* scheme is still the one of the numeric ranges and no exception leaves the
\* handler.
C19_RemoteFailureDegrades ==
    (Classified /\ Prefix \notin DOMAIN bin_db) =>
        /\ ev.bin.calls = 1
        /\ (ev.remote # "200") =>
              /\ ev.bin.issuer = "Unknown" /\ ev.bin.country = "Unknown"
              /\ ev.status = SchemeByRanges(PrefixNumber)
              /\ ~ev.raised

\* A MasterCard BIN of the 2-series, absent from the table, was classified
\* while the remote call raised.
C19_Witness ==
    /\ Classified /\ Prefix \notin DOMAIN bin_db
    /\ ev.remote = "raise" /\ ev.bin.calls = 1
    /\ ev.status = "MasterCard" /\ ev.bin.issuer = "Unknown"

\* C20: the scheme of a six-digit prefix depends on its digits alone: a first
\* digit 4 gives Visa; else the first two digits in 51..55 or the first four
\* in 2221..2720 give MasterCard; else the first four in 2200..2204 give MIR;
\* else Unknown; whatever the table holds for the prefix and whatever the
\* remote service answered.
C20_SchemeFromDigits ==
    Classified =>
        LET d1 == ToInt(SubSeq(Prefix, 1, 1))
            d2 == ToInt(SubSeq(Prefix, 1, 2))
            d4 == ToInt(SubSeq(Prefix, 1, 4))
        IN  ev.status = IF d1 = 4 THEN "Visa"
                        ELSE IF d2 \in 51..55 \/ d4 \in 2221..2720 THEN "MasterCard"
                        ELSE IF d4 \in 2200..2204 THEN "MIR"
                        ELSE "Unknown"

\* A BIN of the table, whose row names no scheme, was classified as MIR.
C20_Witness ==
    /\ Classified /\ Prefix \in DOMAIN bin_db
    /\ bin_db[Prefix].Brand = "Unknown"
    /\ ev.status = "MIR"

---------------------------------------------------------------------------
(* Properties of rejected inputs (SpecAccess) *)

\* The step is a handler that ran for an allowed caller (an admin, for
\* admin_target) and rejected its input: a text that is not six digits sent
\* in BIN mode, an empty counterparty name, a comment of fewer than 2
\* characters, a grant/revoke target that is neither a number nor a handle
\* that is non-empty once normalized.
RejectedInput ==
    LET text == Strip(ev'.text)
    IN  /\ ev'.allowed /\ ~ev'.raised
        /\ \/ /\ ev'.handler = "check_card_message"
              /\ user_data[ev'.user].mode = MODE_BIN
              /\ ~IsDigit(text) \/ Len(text) < 6
           \/ ev'.handler = "cp_receive_name" /\ text = NoText
           \/ ev'.handler = "cp_comment" /\ Len(text) < 2
           \/ /\ ev'.handler = "admin_target" /\ ev'.is_admin
              /\ user_data[ev'.user].adm_action \in {"grant", "revoke"}
              /\ ~IsDigit(text) /\ normalize_username(text) = NoText

\* C21: a rejected input leaves the caller in the workflow state they were in
\* (an unresolvable target leaves the admin workflow in ADM_WAIT_TARGET),
\* inserts, removes, activates or deactivates no access row, changes no role
\* and no tag, and does not end the workflow.
C21_RejectionKeepsState ==
    [][ RejectedInput =>
          LET u == ev'.user
          IN  /\ cp_state'[u] = cp_state[u] /\ adm_state'[u] = adm_state[u]
              /\ counterparty_tags' = counterparty_tags
              /\ Len(access_list') = Len(access_list)
              /\ \A i \in DOMAIN access_list :
                    /\ access_list'[i].role = access_list[i].role
                    /\ access_list'[i].is_active = access_list[i].is_active
      ]_vars

---------------------------------------------------------------------------
(* Properties of grant and revoke (SpecAccess) *)

\* The step is an admin_target that ran the named operation on a target it
\* did not reject.
OperationStep(op) ==
    /\ ev'.handler = "admin_target" /\ ev'.op = op /\ ~ev'.raised
    /\ ev'.status \notin {"invalid", "not_configured"}

\* The rows of `store` the target of the step names: those of its numeric id,
\* else those whose handle is the target's, compared case-insensitively.
NamedRows(store) ==
    LET target == Strip(ev'.text)
    IN  IF IsDigit(target)
        THEN {i \in DOMAIN store : store[i].telegram_id = ToInt(target)}
        ELSE {i \in DOMAIN store : /\ store[i].username # NoText
                                    /\ SameHandle(store[i].username,
                                                  normalize_username(target))}

\* The stores the step's gate call may have left for the operation to work on.
AfterGate ==
    {g.store : g \in {h \in gate(access_list, supabase, ev'.user, ev'.uname, "no") :
                          h.allowed /\ h.is_admin}}

\* C22: grant is an upsert.  If a row matches the target, no row is inserted
\* and one matching row is updated, which leaves its telegram_id and every
\* other row as they were; else exactly one row is inserted, active and with
\* role user.  In both cases the admin workflow is then in ADM_WAIT_ACTION.
C22_GrantIsUpsert ==
    [][ OperationStep("grant") =>
          /\ adm_state'[ev'.user] = "ADM_WAIT_ACTION"
          /\ \E old \in AfterGate :
                IF NamedRows(old) # {}
                THEN /\ Len(access_list') = Len(old)
                     /\ \E i \in NamedRows(old) :
                           /\ access_list'[i].telegram_id = old[i].telegram_id
                           /\ access_list'[i].is_active
                           /\ \A j \in DOMAIN old : j # i => access_list'[j] = old[j]
                ELSE /\ Len(access_list') = Len(old) + 1
                     /\ SubSeq(access_list', 1, Len(old)) = old
                     /\ access_list'[Len(old) + 1].is_active
                     /\ access_list'[Len(old) + 1].role = "user"
      ]_vars

\* C23: revoke sets is_active to FALSE on every row the target names (by
\* telegram_id for a numeric target, by handle compared case-insensitively
\* otherwise) and does nothing else: no row is removed or inserted, the
\* telegram_id, username and role of every row stay, rows the target does not
\* name are untouched, and the admin workflow is then in ADM_WAIT_ACTION.
C23_RevokeDeactivatesNamedRows ==
    [][ OperationStep("revoke") =>
          /\ adm_state'[ev'.user] = "ADM_WAIT_ACTION"
          /\ \E old \in AfterGate :
                /\ Len(access_list') = Len(old)
                /\ \A i \in DOMAIN old :
                      access_list'[i] = IF i \in NamedRows(old)
                                        THEN [old[i] EXCEPT !.is_active = FALSE]
                                        ELSE old[i]
      ]_vars

\* C24: linking by numeric id is permanent: once a row has a telegram_id, no
\* gate call of any caller changes that row's telegram_id; a caller who
\* presents the row's handle and another id does not take the row over.
C24_IdLinkIsPermanent ==
    [][ GateOnlyStep =>
          \A i \in DOMAIN access_list :
              access_list[i].telegram_id # NoId =>
                  access_list'[i].telegram_id = access_list[i].telegram_id
      ]_vars

---------------------------------------------------------------------------
(* Properties of the gate for callers of ADMIN_IDS (SpecAccess) *)

\* C25: for a caller of ADMIN_IDS the gate reads and writes nothing in the
\* store: no access row changes in a handler that only ran the gate for such
\* a caller, and the gate lets them pass also when the store is unreachable,
\* so that no exception leaves the handler.
C25_StaticAdminGateSkipsStore ==
    [][ (GateOnlyStep /\ ev'.user \in ADMIN_IDS) =>
          /\ access_list' = access_list
          /\ ev'.allowed /\ ev'.is_admin
          /\ ~ev'.raised
      ]_vars

\* A BIN was classified for caller u in the step.
ClassifiedStep(u) == ev'.classified /\ ev'.user = u /\ msgs[u].observed

\* C26 as stated: after every successful BIN classification the BIN pointer
\* (last_bin_msg_id) holds the id of the BIN-result message the bot just sent
\* and the BIN-result message it held before is deleted; the BIN pointer
\* differs from the replaceable pointer (last_bot_msg_id) and never holds the
\* id of a message that is not a BIN result.
C26_BinPointerIsBinResult ==
    [][\A u \in UserIds :
         LET m == msgs[u]
             n == msgs'[u]
         IN  /\ ClassifiedStep(u) =>
                  /\ n.last_bin_msg_id = n.sent
                  /\ n.kind[n.sent] = "bin_result"
                  /\ m.last_bin_msg_id # NoMsg => m.last_bin_msg_id \notin n.live
                  /\ n.last_bin_msg_id # n.last_bot_msg_id
             /\ n.last_bin_msg_id # NoMsg => n.kind[n.last_bin_msg_id] = "bin_result"]_vars

\* C26 amended: after every successful BIN classification the BIN pointer
\* holds the id of the caller's message that carried the BIN, the BIN-result
\* message the bot just sent is held by the replaceable pointer, and the
\* message the BIN pointer held before (the caller's previous BIN message) is
\* gone unless Telegram refused its deletion; the two pointers differ and the
\* BIN pointer never holds the id of a message of the bot.
C26_BinPointerIsCallersMessage ==
    [][\A u \in UserIds :
         LET m == msgs[u]
             n == msgs'[u]
         IN  /\ ClassifiedStep(u) =>
                  /\ n.last_bin_msg_id = n.received
                  /\ n.last_bot_msg_id = n.sent
                  /\ n.kind[n.sent] = "bin_result"
                  /\ m.last_bin_msg_id # NoMsg =>
                       \/ m.last_bin_msg_id \notin n.live
                       \/ m.last_bin_msg_id \in n.failed
                  /\ n.last_bin_msg_id # n.last_bot_msg_id
             /\ n.last_bin_msg_id # NoMsg => n.kind[n.last_bin_msg_id] = "user"]_vars

\* A second BIN was classified: the caller's previous BIN message was deleted
\* and the pointer moved to the caller's new message.
C26_Witness ==
    \E u \in UserIds :
       LET m == msgs[u]
       IN  /\ ev.classified /\ ev.user = u
           /\ m.del # <<>> /\ m.kind[m.del[1]] = "user" /\ m.del[1] \notin m.live
           /\ m.last_bin_msg_id = m.received /\ m.received \in m.live
           /\ m.kind[m.last_bot_msg_id] = "bin_result"

\* A deletion asked for in the step was refused, for caller u.
DeletionFailed(u) == ev'.user = u /\ msgs[u].observed /\ msgs'[u].failed # {}

\* The handlers that empty the BIN pointer (clear_bin_history).
ClearsBinPointer(e) ==
    \/ e.handler \in {"start", "help_cmd", "cp_entry"}
    \/ e.handler = "admin_entry" /\ e.is_admin
    \/ e.handler = "on_menu_button" /\ e.status = "help"

\* C27: when the deletion of an earlier bot or user message fails, the handler
\* completes as if it had succeeded: no exception leaves the handler, the
\* answer is sent and is still in the chat, the replaceable pointer holds the
\* id of that answer, the BIN pointer holds what a successful run gives it (the
\* caller's message after a classification, nothing after a handler that
\* clears it, its old value otherwise), the conversation state is the one the
\* handler returns, the stores are untouched, and no deletion is asked twice.
C27_FailedDeletionChangesNothing ==
    [][\A u \in UserIds :
         DeletionFailed(u) =>
           LET m == msgs[u]
               n == msgs'[u]
               h == ev'.handler
           IN  /\ ~ev'.raised
               /\ n.sent # NoMsg /\ n.sent \in n.live
               /\ n.kind[n.sent] = IF ev'.classified THEN "bin_result" ELSE "text"
               /\ n.last_bot_msg_id = n.sent
               /\ n.last_bin_msg_id = IF ev'.classified THEN n.received
                                      ELSE IF ClearsBinPointer(ev') THEN NoMsg
                                      ELSE m.last_bin_msg_id
               /\ cp_state'[u] = IF h \in {"cp_entry", "cp_receive_name"}
                                 THEN "CP_WAIT_NAME" ELSE cp_state[u]
               /\ adm_state' = adm_state
               /\ access_list' = access_list /\ counterparty_tags' = counterparty_tags
               /\ \A i, j \in 1..Len(n.del) : n.del[i] = n.del[j] => i = j
               /\ n.failed \subseteq n.live]_vars

\* A handler answered although Telegram refused to delete both a message of
\* the caller and a message of the bot.
C27_Witness ==
    \E u \in UserIds :
       LET m == msgs[u]
       IN  /\ ev.user = u /\ ~ev.raised
           /\ \E i, j \in m.failed : m.kind[i] = "user" /\ m.kind[j] # "user"
           /\ m.sent \in m.live /\ m.last_bot_msg_id = m.sent

\* The callers who present the target of the step: the numeric id it names,
\* or the handle it names, compared case-insensitively.
PresentsTarget(id, un) ==
    LET target == Strip(ev'.text)
    IN  IF IsDigit(target) THEN id = ToInt(target)
        ELSE /\ normalize_username(un) # NoText
             /\ SameHandle(normalize_username(un), normalize_username(target))

C29_ExternalIdsUnique ==
    \A i, j \in DOMAIN access_list :
       (i # j /\ access_list[i].telegram_id # NoId) =>
          access_list[i].telegram_id # access_list[j].telegram_id

\* Two rows with a telegram_id each, one of them just linked to its caller by
\* the gate's reconciliation by handle.
C29_Witness ==
    /\ Len(access_list) = 2
    /\ \A i \in DOMAIN access_list : access_list[i].telegram_id # NoId
    /\ ev.reconciled = "handle"

=============================================================================
